---- MODULE Spec2Model ----
(***************************************************************************)
(* Verification model of git-dual-context: the retry executor              *)
(* (pkg/analyzer/retry.go), the per-commit analysis                        *)
(* (pkg/analyzer/engine.go) and the concurrent orchestration of the CLI    *)
(* (cmd/git-commit-analysis/main.go) and of the MCP tool                   *)
(* (cmd/mcp-server/internal/tools/rootcause.go).                           *)
(***************************************************************************)
EXTENDS Integers, Sequences, FiniteSets, TLC

(***************************************************************************)
(* Bounds of the model.                                                    *)
(***************************************************************************)
MaxRetriesBound == 3
MaxPieces == 4
DurationBits == 6
MaxShift == 7
MaxWords == 3
MaxDiffLen == 8
MaxPatches == 2
MaxHistory == 6
MaxResults == 3
MaxPathLen == 3
ScriptLen == MaxRetriesBound + 1
NumCommitsBound == 2
NumWorkersBound == 2
TransientBound == 1

(***************************************************************************)
(* Errors.  An error value is a record: kind "nil" is the nil error,       *)
(* "api" a *googleapi.Error with its HTTP code, "deadline" and "canceled"  *)
(* the two context errors, "net" an error whose message contains one of    *)
(* the transient-network phrases, "other" any other error.  Kind "parse"   *)
(* is an error of AnalyzeCommit's response parsing (engine.go:153-157);    *)
(* its code is 1 when its message, which for a decoding failure embeds the *)
(* raw response text, contains one of those phrases, and 0 otherwise.      *)
(* The field msg is the text of err.Error(), as a sequence of words.       *)
(***************************************************************************)
NilErr == [kind |-> "nil", code |-> 0, msg |-> << >>]
ApiErr(c) == [kind |-> "api", code |-> c, msg |-> <<"googleapi">>]
DeadlineExceeded ==
    [kind |-> "deadline", code |-> 0, msg |-> <<"deadline", "exceeded">>]
Canceled == [kind |-> "canceled", code |-> 0, msg |-> <<"canceled">>]
NetErr == [kind |-> "net", code |-> 0, msg |-> <<"connection", "reset">>]
OtherErr == [kind |-> "other", code |-> 0, msg |-> <<"other">>]
ParseErr(c) ==
    [kind |-> "parse", code |-> c,
     msg |-> IF c = 1 THEN <<"parsing", "timeout">> ELSE <<"parsing">>]

\* strings.ToLower, word by word
LowerWord(w) ==
    CASE w = "Connection" -> "connection"
      [] w = "TIMEOUT" -> "timeout"
      [] OTHER -> w

ToLower(msg) == [k \in 1 .. Len(msg) |-> LowerWord(msg[k])]

\* strings.Contains
Contains(str, sub) ==
    \E k \in 0 .. Len(str) - Len(sub) : SubSeq(str, k + 1, k + Len(sub)) = sub

\* retry.go:52-58
retryableMessages ==
    {<<"connection", "reset">>, <<"connection", "refused">>,
     <<"no", "such", "host">>, <<"timeout">>, <<"temporary", "failure">>}

\* an IsRetryable that compares the message as it is, without lowering it
IsRetryableCaseSensitive(err) ==
    IF err.kind = "nil" THEN FALSE
    ELSE IF err.kind = "deadline" THEN TRUE
    ELSE IF err.kind = "api" /\ err.code \in {429, 500, 502, 503, 504} THEN TRUE
    ELSE \E m \in retryableMessages : Contains(err.msg, m)

\* retry.go:30-67, IsRetryable
IsRetryable(err) ==
    IF err.kind = "nil" THEN FALSE
    ELSE IF err.kind = "deadline" THEN TRUE
    ELSE IF err.kind = "api" /\ err.code \in {429, 500, 502, 503, 504} THEN TRUE
    ELSE \E m \in retryableMessages : Contains(ToLower(err.msg), m)

\* retry.go DefaultRetryConfig (delays in seconds)
DefaultRetryConfig == [MaxRetries |-> 3, BaseDelay |-> 1, MaxDelay |-> 30]

RECURSIVE Pow2(_)
Pow2(n) == IF n <= 0 THEN 1 ELSE 2 * Pow2(n - 1)

\* time.Duration is a signed 64-bit integer whose arithmetic wraps around;
\* the model keeps the two's-complement wrap-around, at DurationBits bits
MaxDuration == Pow2(DurationBits - 1) - 1

Wrap(x) ==
    LET m == x % Pow2(DurationBits)
    IN  IF m > MaxDuration THEN m - Pow2(DurationBits) ELSE m

\* retry.go:88, time.Duration(1<<attempt): a shift by the width or more
\* gives 0, a shift by one less the most negative value
ShiftLeft(attempt) ==
    IF attempt >= DurationBits THEN 0 ELSE Wrap(Pow2(attempt))

\* retry.go:88-91, the backoff delay before the retry that follows `attempt`
BackoffDelay(cfg, attempt) ==
    LET delay == Wrap(cfg.BaseDelay * ShiftLeft(attempt))
    IN  IF delay > cfg.MaxDelay THEN cfg.MaxDelay ELSE delay

(***************************************************************************)
(* WithRetry as a state machine over a record rs:                          *)
(*   pc       "call" (about to invoke fn), "sleep" (in the select of       *)
(*            lines 93-98), "returned"                                     *)
(*   attempt  the loop variable                                            *)
(*   lastErr  the variable lastErr                                         *)
(*   calls    number of invocations of fn so far                           *)
(*   sleeps   number of backoff sleeps that ran to their end               *)
(*   ctxAtSleep  whether ctx was already done when the select was entered  *)
(*   ret      the returned value: kind "nil", "plain" (an error of fn,     *)
(*            returned as is), "ctx" (ctx.Err()), "exhausted" (the         *)
(*            "max retries exceeded" wrapper of err)                       *)
(***************************************************************************)
NoRet == [kind |-> "none", err |-> NilErr]

\* WithRetry that gives up one attempt early (attempt >= MaxRetries - 1).
RetryAfterCallOneShort(rs, cfg, err, ctxDone) ==
    LET base == [rs EXCEPT !.lastErr = err, !.calls = @ + 1]
    IN  IF err.kind = "nil"
        THEN [base EXCEPT !.pc = "returned", !.ret = [kind |-> "nil", err |-> NilErr]]
        ELSE IF ~IsRetryable(err)
        THEN [base EXCEPT !.pc = "returned", !.ret = [kind |-> "plain", err |-> err]]
        ELSE IF rs.attempt >= cfg.MaxRetries - 1
        THEN [base EXCEPT !.pc = "returned", !.ret = [kind |-> "exhausted", err |-> err]]
        ELSE [base EXCEPT !.pc = "sleep", !.ctxAtSleep = ctxDone]

\* WithRetry that returns the bare last error when the attempts run out.
RetryAfterCallUnwrapped(rs, cfg, err, ctxDone) ==
    LET base == [rs EXCEPT !.lastErr = err, !.calls = @ + 1]
    IN  IF err.kind = "nil"
        THEN [base EXCEPT !.pc = "returned", !.ret = [kind |-> "nil", err |-> NilErr]]
        ELSE IF ~IsRetryable(err)
        THEN [base EXCEPT !.pc = "returned", !.ret = [kind |-> "plain", err |-> err]]
        ELSE IF rs.attempt = cfg.MaxRetries
        THEN [base EXCEPT !.pc = "returned", !.ret = [kind |-> "plain", err |-> err]]
        ELSE [base EXCEPT !.pc = "sleep", !.ctxAtSleep = ctxDone]

\* WithRetry that backs off before looking at the error class.
RetryAfterCallSleepFirst(rs, cfg, err, ctxDone) ==
    LET base == [rs EXCEPT !.lastErr = err, !.calls = @ + 1]
    IN  IF err.kind = "nil"
        THEN [base EXCEPT !.pc = "returned", !.ret = [kind |-> "nil", err |-> NilErr]]
        ELSE IF rs.attempt = cfg.MaxRetries
        THEN [base EXCEPT !.pc = "returned", !.ret = [kind |-> "exhausted", err |-> err]]
        ELSE [base EXCEPT !.pc = "sleep", !.ctxAtSleep = ctxDone]

\* retry.go:74-93, one loop iteration from the return of fn to the select
RetryAfterCall(rs, cfg, err, ctxDone) ==
    LET base == [rs EXCEPT !.lastErr = err, !.calls = @ + 1]
    IN  IF err.kind = "nil"
        THEN [base EXCEPT !.pc = "returned", !.ret = [kind |-> "nil", err |-> NilErr]]
        ELSE IF ~IsRetryable(err)
        THEN [base EXCEPT !.pc = "returned", !.ret = [kind |-> "plain", err |-> err]]
        ELSE IF rs.attempt = cfg.MaxRetries
        THEN [base EXCEPT !.pc = "returned", !.ret = [kind |-> "exhausted", err |-> err]]
        ELSE [base EXCEPT !.pc = "sleep", !.ctxAtSleep = ctxDone]

\* retry.go:71-73, entry of WithRetry: the loop body runs only if 0 <= MaxRetries
RetryStart(cfg) ==
    LET fresh == [pc |-> "call", attempt |-> 0, lastErr |-> NilErr, calls |-> 0,
                  sleeps |-> 0, ctxAtSleep |-> FALSE, ret |-> NoRet]
    IN  IF 0 <= cfg.MaxRetries THEN fresh
        ELSE [fresh EXCEPT !.pc = "returned",
                           !.ret = [kind |-> "exhausted", err |-> NilErr]]

\* retry.go:96-98 and 73, the timer case of the select and the loop increment
RetryTimer(rs, cfg) ==
    LET n == rs.attempt + 1
    IN  IF n <= cfg.MaxRetries
        THEN [rs EXCEPT !.pc = "call", !.attempt = n, !.sleeps = @ + 1]
        ELSE [rs EXCEPT !.pc = "returned", !.attempt = n, !.sleeps = @ + 1,
                        !.ret = [kind |-> "exhausted", err |-> rs.lastErr]]

\* WithRetry whose select reports a done context as exhausted retries.
RetryCtxDoneExhausted(rs, ctxErr) ==
    [rs EXCEPT !.pc = "returned", !.ret = [kind |-> "exhausted", err |-> rs.lastErr]]

\* retry.go:94-95, the ctx.Done() case of the select
RetryCtxDone(rs, ctxErr) ==
    [rs EXCEPT !.pc = "returned", !.ret = [kind |-> "ctx", err |-> ctxErr]]

\* retry.go:93-98, the timer case of the select can be taken.  A goroutine
\* blocked in the select is woken by the first event: once ctx is done the
\* timer no longer wins.  If ctx was already done when the select was
\* entered, the timer case is ready as well only for a delay that is not
\* positive (time.After fires at once), and the select then picks either.
TimerCanFire(rs, cfg, ctxDone) ==
    IF rs.ctxAtSleep THEN BackoffDelay(cfg, rs.attempt) <= 0 ELSE ~ctxDone

IdleRetry == [pc |-> "idle", attempt |-> 0, lastErr |-> NilErr, calls |-> 0,
              sleeps |-> 0, ctxAtSleep |-> FALSE, ret |-> NoRet]

(***************************************************************************)
(* State of the stand-alone WithRetry specification.                       *)
(*   rcfg    the RetryConfig passed in                                     *)
(*   fn      the operation: fn[c] is what its c-th invocation returns      *)
(*   rs      the state of WithRetry                                        *)
(*   rctx    the context: "live", "canceled" or "deadline"                 *)
(***************************************************************************)
VARIABLES rcfg, fn, rs, rctx

rvars == <<rcfg, fn, rs, rctx>>

(***************************************************************************)
(* The parsing of one response text, engine.go:146-167.                    *)
(*   response   the text of the reasoning service, as a sequence of pieces *)
(*   parsePc    "ready" before the parse, "done" after                     *)
(*   parsed     what the parse returned: the error or the AnalysisResult   *)
(***************************************************************************)
VARIABLES response, parsePc, parsed

pvars == <<response, parsePc, parsed>>

(***************************************************************************)
(* One call of a library function.                                         *)
(*   fnCall   the function called and its arguments                        *)
(*   fnPc     "ready" before the call, "done" after                        *)
(*   fnRet    what the call returned                                       *)
(***************************************************************************)
VARIABLES fnCall, fnPc, fnRet

fvars == <<fnCall, fnPc, fnRet>>

NoCall == [fn |-> "none"]

(***************************************************************************)
(* State of an analysis run.                                               *)
(*   entry        "cli" (main.go) or "mcp" (rootcause.go AnalyzeRootCause) *)
(*   numCommits   len(commits); commits are indexed 0 .. numCommits-1      *)
(*   numWorkers   the validated worker count                               *)
(*   verbose      the -v flag of the CLI                                   *)
(*   touched      per commit, the paths its standard diff touches          *)
(*   cancelled    the run-wide ctx is done                                 *)
(*   mpc, next    position of the orchestrating goroutine and its loop     *)
(*                index                                                    *)
(*   wpc, wrs, wres, wctx   per commit: position of its worker goroutine,  *)
(*                its WithRetry state, its variable res, its reqCtx        *)
(*   sem, wg      tokens in the semaphore channel, the WaitGroup counter   *)
(*   p            the orderedPrinter: results, nextToPrint and counters    *)
(*   emitted      the indices whose outcome reached the sink, in order     *)
(*   outcome      per commit, the bucket of the outcome that reached the   *)
(*                sink, "none" before                                      *)
(*   llmCalls, fullDiff     per commit: reasoning calls issued, whether    *)
(*                the full diff was computed                               *)
(*   diffContexts, results   the slices of AnalyzeRootCause; an unset      *)
(*                element is NoContext or NoResult                         *)
(*   summary      the run summary once produced                            *)
(*   transient    transport errors the reasoning service has returned      *)
(***************************************************************************)
VARIABLES entry, numCommits, numWorkers, verbose, touched, cancelled,
          mpc, next, wpc, wrs, wres, wctx, sem, wg,
          p, emitted, outcome, llmCalls, fullDiff, summary, transient,
          diffContexts, results

ovars == <<entry, numCommits, numWorkers, verbose, touched, cancelled,
           mpc, next, wpc, wrs, wres, wctx, sem, wg,
           p, emitted, outcome, llmCalls, fullDiff, summary, transient,
           diffContexts, results>>

vars == <<rcfg, fn, rs, rctx, response, parsePc, parsed,
          fnCall, fnPc, fnRet, entry, numCommits, numWorkers, verbose, touched,
          cancelled, mpc, next, wpc, wrs, wres, wctx, sem, wg,
          p, emitted, outcome, llmCalls, fullDiff, summary, transient,
          diffContexts, results>>

(***************************************************************************)
(* Response texts.  A text is a sequence of tokens: a prose word, a brace, *)
(* or a member of a JSON object (the separating commas are left out).  The *)
(* member "p=v" is the pair "probability": v, with v a string except in    *)
(* "p=5" (a number) and "p=null"; "R1" and "R2" are "reasoning" members    *)
(* with different texts; "k:" is a key whose value is the object that      *)
(* follows it.                                                             *)
(***************************************************************************)
ProbMembers == {"p=HIGH", "p=high", "p=MED", "p=maybe", "p=5", "p=null"}
Members == ProbMembers \cup {"R1", "R2"}

\* the pieces a response text is put together from
Pieces == {"word", "{}", "{word}", "vHIGH", "vhigh", "vMED", "vmaybe",
           "v5", "vnull", "nested", "noverdict", "}"}

\* the tokens of a piece: prose, the brace pairs of prose, objects with the
\* verdict field, an object that has the field only in a nested object, an
\* object without it, a lone closing brace
Tokens(piece) ==
    CASE piece = "word" -> <<"w">>
      [] piece = "{}" -> <<"{", "}">>
      [] piece = "{word}" -> <<"{", "w", "}">>
      [] piece = "vHIGH" -> <<"{", "p=HIGH", "R1", "}">>
      [] piece = "vhigh" -> <<"{", "p=high", "R1", "}">>
      [] piece = "vMED" -> <<"{", "p=MED", "R1", "}">>
      [] piece = "vmaybe" -> <<"{", "p=maybe", "R1", "}">>
      [] piece = "v5" -> <<"{", "p=5", "R1", "}">>
      [] piece = "vnull" -> <<"{", "p=null", "R1", "}">>
      [] piece = "nested" -> <<"{", "R2", "k:", "{", "p=HIGH", "}", "}">>
      [] piece = "noverdict" -> <<"{", "R2", "}">>
      [] piece = "}" -> <<"}">>

RECURSIVE Text(_)
Text(pieces) ==
    IF pieces = << >> THEN << >>
    ELSE Tokens(Head(pieces)) \o Text(Tail(pieces))

\* strings.LastIndex(text[:before-1], tok), 1-based, 0 when there is none
LastIndex(text, tok, before) ==
    LET hits == {k \in 1 .. before - 1 : text[k] = tok}
    IN  IF hits = {} THEN 0 ELSE CHOOSE k \in hits : \A h \in hits : h <= k

\* encoding/json: the position of the brace closing the object that opens
\* at i, 0 when text[i..] does not start with a well-formed object
RECURSIVE ObjectEnd(_, _), MembersEnd(_, _)
ObjectEnd(text, i) ==
    IF i > Len(text) \/ text[i] # "{" THEN 0 ELSE MembersEnd(text, i + 1)

MembersEnd(text, j) ==
    IF j > Len(text) THEN 0
    ELSE IF text[j] = "}" THEN j
    ELSE IF text[j] \in Members THEN MembersEnd(text, j + 1)
    ELSE IF text[j] = "k:"
         THEN LET e == ObjectEnd(text, j + 1)
              IN  IF e = 0 THEN 0 ELSE MembersEnd(text, e + 1)
    ELSE 0

\* engine.go:251-252, json.Unmarshal(candidate, &js) == nil: the candidate
\* is one object and nothing else
ValidObject(candidate) ==
    candidate # << >> /\ ObjectEnd(candidate, 1) = Len(candidate)

\* engine.go:248, strings.Contains(candidate, "\"probability\"")
ContainsProbability(candidate) ==
    \E k \in 1 .. Len(candidate) : candidate[k] \in ProbMembers

\* engine.go:245-255, the loop of findJSONBlock from the opening brace at
\* start: the candidate runs to the last closing brace of the text
RECURSIVE ScanFrom(_, _, _)
ScanFrom(text, start, end) ==
    LET candidate == SubSeq(text, start, end)
    IN  IF start = 0 THEN << >>
        ELSE IF ContainsProbability(candidate) /\ ValidObject(candidate)
             THEN candidate
        ELSE ScanFrom(text, LastIndex(text, "{", start), end)

\* engine.go:234-258, findJSONBlock; "" is the empty sequence
findJSONBlock(text) ==
    LET end == LastIndex(text, "}", Len(text) + 1)
    IN  IF end = 0 THEN << >>
        ELSE ScanFrom(text, LastIndex(text, "{", end), end)

\* strings.ToUpper of the string value of a "probability" member; null
\* leaves the string empty
ToUpper(member) ==
    CASE member = "p=HIGH" -> "HIGH"
      [] member = "p=high" -> "HIGH"
      [] member = "p=MED" -> "MED"
      [] member = "p=maybe" -> "MAYBE"
      [] member = "p=null" -> ""

\* engine.go:26-40, Probability.UnmarshalJSON: "error" when the value is
\* not a string, else the tier
UnmarshalJSON(member) ==
    IF member = "p=5" THEN "error"
    ELSE CASE ToUpper(member) = "HIGH" -> "HIGH"
           [] ToUpper(member) \in {"MEDIUM", "MED"} -> "MEDIUM"
           [] OTHER -> "LOW"

\* the zero AnalysisResult that engine.go:146 declares
ZeroResult == [err |-> "nil", Probability |-> "", Reasoning |-> ""]

\* json.Unmarshal(cleanTxt, &result), engine.go:155: the members of the
\* top-level object set their fields in order, a nested object is skipped
RECURSIVE Unmarshal(_, _, _)
Unmarshal(obj, j, res) ==
    IF j >= Len(obj) THEN res
    ELSE IF obj[j] \in ProbMembers
         THEN IF UnmarshalJSON(obj[j]) = "error"
              THEN [res EXCEPT !.err = "parsing JSON"]
              ELSE Unmarshal(obj, j + 1,
                             [res EXCEPT !.Probability = UnmarshalJSON(obj[j])])
    ELSE IF obj[j] = "k:" THEN Unmarshal(obj, ObjectEnd(obj, j + 1) + 1, res)
    ELSE Unmarshal(obj, j + 1, [res EXCEPT !.Reasoning = obj[j]])

\* engine.go:149-160, the parse of the first text part
ParseText(text) ==
    LET cleanTxt == findJSONBlock(text)
    IN  IF cleanTxt = << >> THEN [ZeroResult EXCEPT !.err = "no JSON found"]
        ELSE Unmarshal(cleanTxt, 2, ZeroResult)

ParseInit ==
    /\ response \in UNION {[1 .. n -> Pieces] : n \in 0 .. MaxPieces}
    /\ parsePc = "ready"
    /\ parsed = ZeroResult

\* AnalyzeCommit parses the response
Parse ==
    /\ parsePc = "ready"
    /\ parsed' = ParseText(Text(response))
    /\ parsePc' = "done"
    /\ UNCHANGED <<rvars, ovars, fvars, response>>

OpErrs == {NilErr, ApiErr(503), ApiErr(400), DeadlineExceeded}
RetryConfigs ==
    [MaxRetries : -1 .. MaxRetriesBound, BaseDelay : {0, 1}, MaxDelay : {2}]

CtxErr(c) == IF c = "deadline" THEN DeadlineExceeded ELSE Canceled

RetryInit ==
    /\ rcfg \in RetryConfigs
    /\ fn \in [1 .. ScriptLen -> OpErrs]
    /\ rs = RetryStart(rcfg)
    /\ rctx = "live"

\* fn() returns (retry.go:74) and the loop iteration runs up to the select
RCall ==
    /\ rs.pc = "call"
    /\ rs.calls < ScriptLen
    /\ rs' = RetryAfterCall(rs, rcfg, fn[rs.calls + 1], rctx # "live")
    /\ UNCHANGED <<ovars, pvars, fvars, rcfg, fn, rctx>>

\* the backoff timer fires (retry.go:96)
RTimer ==
    /\ rs.pc = "sleep"
    /\ TimerCanFire(rs, rcfg, rctx # "live")
    /\ rs' = RetryTimer(rs, rcfg)
    /\ UNCHANGED <<ovars, pvars, fvars, rcfg, fn, rctx>>

\* ctx.Done() is selected (retry.go:94)
RCtxDone ==
    /\ rs.pc = "sleep"
    /\ rctx # "live"
    /\ rs' = RetryCtxDone(rs, CtxErr(rctx))
    /\ UNCHANGED <<ovars, pvars, fvars, rcfg, fn, rctx>>

\* the caller cancels the context, or its deadline passes
RCancel ==
    /\ rctx = "live"
    /\ rs.pc # "returned"
    /\ rctx' \in {"canceled", "deadline"}
    /\ UNCHANGED <<ovars, pvars, fvars, rcfg, fn, rs>>

RetryNext == RCall \/ RTimer \/ RCtxDone \/ RCancel

(***************************************************************************)
(* Commits and diff extraction (pkg/analyzer/engine.go).                   *)
(* A commit is the set of paths its standard diff touches.                 *)
(***************************************************************************)
Paths == {"main.go", "go.sum", "logo.png"}

\* FilePatch.IsBinary of the file patch for a path
IsBinary(path) == path = "logo.png"

\* engine.go ShouldIgnoreFile on the paths of the model: "go.sum" ends with
\* a lock-file name; "main.go" and "logo.png" match no rule
ShouldIgnoreFile(path) == path \in {"go.sum"}

\* GetStandardDiff that keeps ignored files in the touched-file list.
StandardDiffFilesNoIgnore(paths) == {f \in paths : ~IsBinary(f)}

\* engine.go GetStandardDiff, the list `files`: binary and ignored files
\* are dropped
StandardDiffFiles(paths) ==
    {f \in paths : ~IsBinary(f) /\ ~ShouldIgnoreFile(f)}

FileSets == {{"go.sum", "logo.png"}, {"main.go", "go.sum"}}

(***************************************************************************)
(* Results.  An AnalysisResult pointer is a record: isNil for the nil      *)
(* pointer, Skipped and Probability as in the struct.                      *)
(***************************************************************************)
NilResult == [isNil |-> TRUE, Skipped |-> FALSE, Probability |-> ""]
SkippedResult == [isNil |-> FALSE, Skipped |-> TRUE, Probability |-> ""]
Verdict(prob) == [isNil |-> FALSE, Skipped |-> FALSE, Probability |-> prob]

\* What the reasoning service answers to one call: an error of the
\* transport, or text.  "HIGH", "MEDIUM", "LOW" are texts with a verdict
\* object of that tier; "untiered" is a text whose last JSON object
\* mentions "probability" only inside a value, so that it decodes into an
\* AnalysisResult with no tier; "garbage" is a text with no JSON object;
\* "mistyped" is a text that speaks of a timeout and whose JSON object
\* gives "probability" a number, so that decoding it fails.
Responses ==
    {"HIGH", "MEDIUM", "LOW", "untiered", "garbage", "mistyped", "e503"}

\* the responses that make WithRetry try again
TransientResponses == {"e503", "mistyped"}

\* engine.go:136-167 AnalyzeCommit from the return of GenerateContent:
\* the pair <<result, error>> for a response
ParseResponse(resp) ==
    CASE resp = "e503" -> <<NilResult, ApiErr(503)>>
      [] resp = "ctx-canceled" -> <<NilResult, Canceled>>
      [] resp = "ctx-deadline" -> <<NilResult, DeadlineExceeded>>
      [] resp = "garbage" -> <<NilResult, ParseErr(0)>>
      [] resp = "mistyped" -> <<NilResult, ParseErr(1)>>
      [] resp = "untiered" -> <<Verdict(""), NilErr>>
      [] OTHER -> <<Verdict(resp), NilErr>>

Commits == 0 .. numCommits - 1
Slots == 0 .. NumCommitsBound - 1

\* unset elements of diffContexts and results
NoContext == [set |-> FALSE, isNil |-> TRUE, Skipped |-> FALSE]
NoResult == [set |-> FALSE, result |-> NilResult, err |-> NoRet]

NoSummary == [Type |-> "none", Total |-> 0, High |-> 0, Medium |-> 0,
              Low |-> 0, Skipped |-> 0, Errors |-> 0]

\* main.go newOrderedPrinter
newOrderedPrinter(total) ==
    [results |-> {}, nextToPrint |-> 0, total |-> total,
     high |-> 0, medium |-> 0, low |-> 0, skipped |-> 0, errors |-> 0]

\* a commitResult: index, result, err (the value WithRetry returned)
commitResult(i, res, ret) == [index |-> i, result |-> res, err |-> ret]

\* a printResult that counts a skipped commit under the LOW tier
printResultSkippedAsLow(pr, r) ==
    IF r.err.kind # "nil" THEN [pr EXCEPT !.errors = @ + 1]
    ELSE IF r.result.isNil THEN [pr EXCEPT !.errors = @ + 1]
    ELSE IF r.result.Skipped THEN [pr EXCEPT !.low = @ + 1]
    ELSE IF r.result.Probability = "HIGH" THEN [pr EXCEPT !.high = @ + 1]
    ELSE IF r.result.Probability = "MEDIUM" THEN [pr EXCEPT !.medium = @ + 1]
    ELSE IF r.result.Probability = "LOW" THEN [pr EXCEPT !.low = @ + 1]
    ELSE pr

\* main.go printResult, the counter updates
printResult(pr, r) ==
    IF r.err.kind # "nil" THEN [pr EXCEPT !.errors = @ + 1]
    ELSE IF r.result.isNil THEN [pr EXCEPT !.errors = @ + 1]
    ELSE IF r.result.Skipped THEN [pr EXCEPT !.skipped = @ + 1]
    ELSE IF r.result.Probability = "HIGH" THEN [pr EXCEPT !.high = @ + 1]
    ELSE IF r.result.Probability = "MEDIUM" THEN [pr EXCEPT !.medium = @ + 1]
    ELSE IF r.result.Probability = "LOW" THEN [pr EXCEPT !.low = @ + 1]
    ELSE pr

\* the bucket of the summary (engine.go:59-68) that a terminal outcome
\* belongs to: an error when WithRetry returned one or there is no result,
\* skipped for a Skipped result, otherwise the tier of the verdict
TerminalBucket(res, ret) ==
    IF ret.kind # "nil" \/ res.isNil THEN "errors"
    ELSE IF res.Skipped THEN "skipped"
    ELSE CASE res.Probability = "HIGH" -> "high"
           [] res.Probability = "MEDIUM" -> "medium"
           [] res.Probability = "LOW" -> "low"
           [] OTHER -> "untiered"

\* main.go printResult: whether it writes a record to the encoder
printResultWrites(r) == r.err.kind # "nil" \/ ~r.result.isNil

\* a lookup that hands out any buffered result, whatever its index
BufferedAnyIndex(pr, i) == pr.results

\* main.go:73, p.results[p.nextToPrint]: the buffered result with a given
\* index
Buffered(pr, i) == {r \in pr.results : r.index = i}

\* main.go submit:69, p.results[r.index] = r
StoreResult(pr, r) ==
    [pr EXCEPT !.results = {x \in @ : x.index # r.index} \cup {r}]

\* a loop step that advances the cursor and leaves the entry in the map
AdvanceKeepingEntry(pr) == [pr EXCEPT !.nextToPrint = @ + 1]

\* main.go submit:79-80, delete(p.results, p.nextToPrint); p.nextToPrint++
Advance(pr) ==
    [pr EXCEPT !.results = {x \in @ : x.index # pr.nextToPrint},
               !.nextToPrint = @ + 1]

\* main.go summary
MakeSummary(pr) ==
    [Type |-> "summary", Total |-> pr.total, High |-> pr.high,
     Medium |-> pr.medium, Low |-> pr.low, Skipped |-> pr.skipped,
     Errors |-> pr.errors]

(***************************************************************************)
(* Locks and shared resources, read off the positions of the goroutines.   *)
(***************************************************************************)
\* goroutines holding logMutex (inside logJSON)
LogMutexHolders ==
    {i \in Commits : wpc[i] = "log"}
        \cup (IF mpc \in {"warn1", "warn2"} THEN {-1} ELSE {})

\* goroutines holding p.mu (inside submit)
PrinterMuHolders == {i \in Commits : wpc[i] \in {"drain", "print"}}

\* goroutines inside encoder.Encode
Writers ==
    {i \in Commits : wpc[i] \in {"log", "print"}}
        \cup (IF mpc \in {"warn1", "warn2", "encode"} THEN {-1} ELSE {})

\* goroutines reading the repository
Readers ==
    {i \in Commits : wpc[i] = "git"}
        \cup (IF mpc = "extract" THEN {-1} ELSE {})

\* the process is alive: main has not returned
Running == mpc # "done"

OrchInit ==
    /\ entry \in {"cli", "mcp"}
    /\ numCommits \in 0 .. NumCommitsBound
    /\ numWorkers \in 1 .. NumWorkersBound
    /\ verbose \in BOOLEAN
    /\ entry = "mcp" => ~verbose
    /\ touched \in [Slots -> FileSets]
    /\ \A i \in Slots : i >= numCommits => touched[i] = {"main.go", "go.sum"}
    /\ cancelled = FALSE
    /\ mpc = IF entry = "cli" THEN "dispatch" ELSE "phase1"
    /\ next = 0
    /\ wpc = [i \in Slots |-> "idle"]
    /\ wrs = [i \in Slots |-> IdleRetry]
    /\ wres = [i \in Slots |-> NilResult]
    /\ wctx = [i \in Slots |-> "live"]
    /\ sem = 0
    /\ wg = 0
    /\ p = newOrderedPrinter(IF entry = "cli" THEN numCommits ELSE 0)
    /\ emitted = << >>
    /\ outcome = [i \in Slots |-> "none"]
    /\ llmCalls = [i \in Slots |-> 0]
    /\ fullDiff = [i \in Slots |-> FALSE]
    /\ summary = NoSummary
    /\ transient = 0
    /\ diffContexts = [i \in Slots |-> NoContext]
    /\ results = [i \in Slots |-> NoResult]

cfgVars == <<entry, numCommits, numWorkers, verbose, touched>>
envVars == <<cfgVars, transient>>
cliVars == <<p, emitted, outcome>>
mcpVars == <<diffContexts, results>>

\* a send on a channel of capacity cap holding n tokens that never blocks
ChanCanSendUnbounded(n, cap) == TRUE

\* a send on a buffered channel of capacity cap holding n tokens can proceed
ChanCanSend(n, cap) == n < cap

(***************************************************************************)
(* The CLI, main.go:336-403: the orchestrating goroutine.                  *)
(***************************************************************************)
\* main.go:343-347, one iteration of the loop: wg.Add, the send on sem
\* (blocks while the channel is full), the go statement
Dispatch ==
    /\ entry = "cli" /\ mpc = "dispatch"
    /\ next < numCommits
    /\ ChanCanSend(sem, numWorkers)
    /\ wg' = wg + 1
    /\ sem' = sem + 1
    /\ wpc' = [wpc EXCEPT ![next] = "start"]
    /\ next' = next + 1
    /\ UNCHANGED <<rvars, pvars, fvars, mcpVars, envVars, cancelled, mpc, wrs, wres, wctx, p,
                   emitted, outcome, llmCalls, fullDiff, summary>>

\* main.go:378-385, the loop ends and the waiting goroutine is started
DispatchEnd ==
    /\ entry = "cli" /\ mpc = "dispatch"
    /\ next = numCommits
    /\ mpc' = "wait"
    /\ UNCHANGED <<rvars, pvars, fvars, mcpVars, envVars, cancelled, next, wpc, wrs, wres, wctx, sem, wg,
                   p, emitted, outcome, llmCalls, fullDiff, summary>>

\* main.go:381-388 and 394, the case <-done of either select: wg.Wait has
\* returned in the waiting goroutine, which closed done
SelectDone ==
    /\ entry = "cli" /\ mpc \in {"wait", "grace"}
    /\ wg = 0
    /\ mpc' = "summary"
    /\ UNCHANGED <<rvars, pvars, fvars, mcpVars, envVars, cancelled, next, wpc, wrs, wres, wctx, sem, wg,
                   p, emitted, outcome, llmCalls, fullDiff, summary>>

\* main.go:390-391, the case <-ctx.Done() and the entry into logJSON
SelectCancelled ==
    /\ entry = "cli" /\ mpc = "wait"
    /\ cancelled
    /\ LogMutexHolders = {}
    /\ mpc' = "warn1"
    /\ UNCHANGED <<rvars, pvars, fvars, mcpVars, envVars, cancelled, next, wpc, wrs, wres, wctx, sem, wg,
                   p, emitted, outcome, llmCalls, fullDiff, summary>>

\* main.go:187-193, logJSON returns
LogWarnEnd ==
    /\ entry = "cli" /\ mpc \in {"warn1", "warn2"}
    /\ mpc' = IF mpc = "warn1" THEN "grace" ELSE "summary"
    /\ UNCHANGED <<rvars, pvars, fvars, mcpVars, envVars, cancelled, next, wpc, wrs, wres, wctx, sem, wg,
                   p, emitted, outcome, llmCalls, fullDiff, summary>>

\* main.go:395-396, the grace timer fires and logJSON is entered
GraceTimeout ==
    /\ entry = "cli" /\ mpc = "grace"
    /\ LogMutexHolders = {}
    /\ mpc' = "warn2"
    /\ UNCHANGED <<rvars, pvars, fvars, mcpVars, envVars, cancelled, next, wpc, wrs, wres, wctx, sem, wg,
                   p, emitted, outcome, llmCalls, fullDiff, summary>>

\* main.go:401 and 126-141, printer.summary under p.mu
TakeSummary ==
    /\ entry = "cli" /\ mpc = "summary"
    /\ PrinterMuHolders = {}
    /\ summary' = MakeSummary(p)
    /\ mpc' = "encode"
    /\ UNCHANGED <<rvars, pvars, fvars, mcpVars, envVars, cancelled, next, wpc, wrs, wres, wctx, sem, wg,
                   p, emitted, outcome, llmCalls, fullDiff>>

\* main.go:401-404, encoder.Encode of the summary returns and main returns
EncodeSummaryEnd ==
    /\ entry = "cli" /\ mpc = "encode"
    /\ mpc' = "done"
    /\ UNCHANGED <<rvars, pvars, fvars, mcpVars, envVars, cancelled, next, wpc, wrs, wres, wctx, sem, wg,
                   p, emitted, outcome, llmCalls, fullDiff, summary>>

\* the interrupt signal arrives: ctx and every live reqCtx are done
Cancel ==
    /\ Running /\ mpc # "aborted"
    /\ ~cancelled
    /\ cancelled' = TRUE
    /\ wctx' = [i \in Slots |->
          IF wpc[i] \in {"log", "git", "llm", "sleep"} /\ wctx[i] = "live"
          THEN "canceled" ELSE wctx[i]]
    /\ UNCHANGED <<rvars, pvars, fvars, mcpVars, envVars, mpc, next, wpc, wrs, wres, sem, wg, p,
                   emitted, outcome, llmCalls, fullDiff, summary>>

(***************************************************************************)
(* The CLI, main.go:347-377: the worker goroutine of commit i.              *)
(***************************************************************************)
\* the error ctx.Err() of a done reqCtx
ReqCtxErr(i) == CtxErr(wctx[i])

\* a worker that reports no error when it finds ctx done
WorkerCancelledErrNil == [kind |-> "nil", err |-> NilErr]

\* main.go:354 and rootcause.go:269, err: ctx.Err() of the outcome of a
\* worker that finds ctx done when it starts
WorkerCancelledErr == [kind |-> "ctx", err |-> Canceled]

\* main.go:352-357, the worker finds ctx done: its outcome is ctx.Err()
WorkerStartCancelled(i) ==
    /\ Running /\ entry = "cli" /\ wpc[i] = "start"
    /\ cancelled
    /\ wrs' = [wrs EXCEPT ![i] =
          [IdleRetry EXCEPT !.pc = "returned", !.ret = WorkerCancelledErr]]
    /\ wpc' = [wpc EXCEPT ![i] = "submit"]
    /\ UNCHANGED <<rvars, pvars, fvars, mcpVars, envVars, cancelled, mpc, next, wres, wctx, sem, wg,
                   p, emitted, outcome, llmCalls, fullDiff, summary>>

\* main.go:356-369, ctx is live: reqCtx is made, with -v the worker enters
\* logJSON, otherwise it enters WithRetry and AnalyzeCommit
WorkerStart(i) ==
    /\ Running /\ entry = "cli" /\ wpc[i] = "start"
    /\ ~cancelled
    /\ verbose => LogMutexHolders = {}
    /\ wpc' = [wpc EXCEPT ![i] = IF verbose THEN "log" ELSE "git"]
    /\ wrs' = [wrs EXCEPT ![i] = RetryStart(DefaultRetryConfig)]
    /\ UNCHANGED <<rvars, pvars, fvars, mcpVars, envVars, cancelled, mpc, next, wres, wctx, sem, wg,
                   p, emitted, outcome, llmCalls, fullDiff, summary>>

\* main.go:364 and 187-193, logJSON returns; WithRetry calls AnalyzeCommit
WorkerLogEnd(i) ==
    /\ Running /\ entry = "cli" /\ wpc[i] = "log"
    /\ wpc' = [wpc EXCEPT ![i] = "git"]
    /\ UNCHANGED <<rvars, pvars, fvars, mcpVars, envVars, cancelled, mpc, next, wrs, wres, wctx, sem, wg,
                   p, emitted, outcome, llmCalls, fullDiff, summary>>

\* the per-call timeout of reqCtx passes; nothing looks at reqCtx before
\* the reasoning call, so an earlier expiry is seen as one at its start
WorkerExpire(i) ==
    /\ Running /\ wpc[i] \in {"llm", "sleep"}
    /\ wctx[i] = "live"
    /\ wctx' = [wctx EXCEPT ![i] = "deadline"]
    /\ UNCHANGED <<rvars, pvars, fvars, mcpVars, envVars, cancelled, mpc, next, wpc, wrs, wres, sem, wg,
                   p, emitted, outcome, llmCalls, fullDiff, summary>>

\* the worker leaves WithRetry, or stays in it, according to its state
AfterRetryStep(r) ==
    IF r.pc = "returned" THEN "submit"
    ELSE IF r.pc = "sleep" THEN "sleep" ELSE "git"

\* engine.go:105-136 AnalyzeCommit up to the reasoning call: the parent
\* lookup, GetStandardDiff, the skip test, GetFullDiff; gitFails says
\* whether a repository read fails
AnalyzeCommitGit(i, gitFails) ==
    /\ Running /\ entry = "cli" /\ wpc[i] = "git"
    /\ IF gitFails
       THEN /\ wres' = [wres EXCEPT ![i] = NilResult]
            /\ wrs' = [wrs EXCEPT ![i] =
                  RetryAfterCall(@, DefaultRetryConfig, OtherErr, wctx[i] # "live")]
            /\ wpc' = [wpc EXCEPT ![i] = AfterRetryStep(wrs'[i])]
            /\ UNCHANGED <<rvars, pvars, fvars, llmCalls, fullDiff>>
       ELSE IF StandardDiffFiles(touched[i]) = {}
       THEN /\ wres' = [wres EXCEPT ![i] = SkippedResult]
            /\ wrs' = [wrs EXCEPT ![i] =
                  RetryAfterCall(@, DefaultRetryConfig, NilErr, wctx[i] # "live")]
            /\ wpc' = [wpc EXCEPT ![i] = AfterRetryStep(wrs'[i])]
            /\ UNCHANGED <<rvars, pvars, fvars, llmCalls, fullDiff>>
       ELSE /\ fullDiff' = [fullDiff EXCEPT ![i] = TRUE]
            /\ llmCalls' = [llmCalls EXCEPT ![i] = @ + 1]
            /\ wpc' = [wpc EXCEPT ![i] = "llm"]
            /\ UNCHANGED <<rvars, pvars, fvars, wres, wrs>>
    /\ UNCHANGED <<rvars, pvars, fvars, mcpVars, envVars, cancelled, mpc, next, wctx, sem, wg,
                   p, emitted, outcome, summary>>

\* what a reasoning call can return: any response while its context is
\* live, the context's error once it is done
PossibleResponses(i) ==
    IF wctx[i] = "live" THEN Responses
    ELSE IF wctx[i] = "deadline" THEN {"ctx-deadline"} ELSE {"ctx-canceled"}

\* engine.go:136-167 (GenerateContent returns, the response is parsed)
\* and retry.go:74-93 (WithRetry looks at the error)
ReasoningReturns(i, resp) ==
    /\ Running /\ wpc[i] = "llm"
    /\ resp \in PossibleResponses(i)
    /\ resp \in TransientResponses => transient < TransientBound
    /\ transient' = IF resp \in TransientResponses THEN transient + 1
                    ELSE transient
    /\ wres' = [wres EXCEPT ![i] = ParseResponse(resp)[1]]
    /\ wrs' = [wrs EXCEPT ![i] =
          RetryAfterCall(@, DefaultRetryConfig, ParseResponse(resp)[2],
                         wctx[i] # "live")]
    /\ wpc' = [wpc EXCEPT ![i] =
          IF wrs'[i].pc = "returned" THEN IF entry = "cli" THEN "submit" ELSE "store"
          ELSE "sleep"]
    /\ UNCHANGED <<rvars, pvars, fvars, mcpVars, cfgVars, cancelled, mpc, next, wctx, sem, wg,
                   p, emitted, outcome, llmCalls, fullDiff, summary>>

\* retry.go:96, the backoff timer of the worker's WithRetry fires; the next
\* invocation of fn starts
BackoffTimer(i) ==
    /\ Running /\ wpc[i] = "sleep"
    /\ TimerCanFire(wrs[i], DefaultRetryConfig, wctx[i] # "live")
    /\ wrs' = [wrs EXCEPT ![i] = RetryTimer(@, DefaultRetryConfig)]
    /\ IF entry = "cli"
       THEN /\ wpc' = [wpc EXCEPT ![i] = AfterRetryStep(wrs'[i])]
            /\ UNCHANGED llmCalls
       ELSE /\ wpc' = [wpc EXCEPT ![i] = "llm"]
            /\ llmCalls' = [llmCalls EXCEPT ![i] = @ + 1]
    /\ UNCHANGED <<rvars, pvars, fvars, mcpVars, envVars, cancelled, mpc, next, wres, wctx, sem, wg,
                   p, emitted, outcome, fullDiff, summary>>

\* retry.go:94, reqCtx.Done() is selected during the backoff
BackoffCtxDone(i) ==
    /\ Running /\ wpc[i] = "sleep"
    /\ wctx[i] # "live"
    /\ wrs' = [wrs EXCEPT ![i] = RetryCtxDone(@, ReqCtxErr(i))]
    /\ wpc' = [wpc EXCEPT ![i] = IF entry = "cli" THEN "submit" ELSE "store"]
    /\ UNCHANGED <<rvars, pvars, fvars, mcpVars, envVars, cancelled, mpc, next, wres, wctx, sem, wg,
                   p, emitted, outcome, llmCalls, fullDiff, summary>>

\* main.go:64-69, submit takes p.mu and stores the result; the worker's
\* locals are dead from here on and are reset
Submit(i) ==
    /\ Running /\ entry = "cli" /\ wpc[i] = "submit"
    /\ PrinterMuHolders = {}
    /\ p' = StoreResult(p, commitResult(i, wres[i], wrs[i].ret))
    /\ wpc' = [wpc EXCEPT ![i] = "drain"]
    /\ wrs' = [wrs EXCEPT ![i] = IdleRetry]
    /\ wres' = [wres EXCEPT ![i] = NilResult]
    /\ wctx' = [wctx EXCEPT ![i] = "live"]
    /\ UNCHANGED <<rvars, pvars, fvars, mcpVars, envVars, cancelled, mpc, next, sem, wg,
                   emitted, outcome, llmCalls, fullDiff, summary>>

\* main.go:72-78, the drain loop finds the next result and enters
\* printResult, which starts to encode its record
PrintBegin(i) ==
    /\ Running /\ entry = "cli" /\ wpc[i] = "drain"
    /\ Buffered(p, p.nextToPrint) # {}
    /\ wpc' = [wpc EXCEPT ![i] = "print"]
    /\ UNCHANGED <<rvars, pvars, fvars, mcpVars, envVars, cancelled, mpc, next, wrs, wres, wctx, sem, wg,
                   p, emitted, outcome, llmCalls, fullDiff, summary>>

\* main.go:78-80 and 85-123, printResult returns: the record is written,
\* its counter updated, the entry deleted, the cursor advanced
PrintEnd(i) ==
    /\ Running /\ entry = "cli" /\ wpc[i] = "print"
    /\ LET r == CHOOSE x \in Buffered(p, p.nextToPrint) : TRUE
       IN  /\ p' = Advance(printResult(p, r))
           /\ emitted' = IF printResultWrites(r) THEN Append(emitted, r.index)
                         ELSE emitted
           /\ outcome' = [outcome EXCEPT ![r.index] = TerminalBucket(r.result, r.err)]
    /\ wpc' = [wpc EXCEPT ![i] = "drain"]
    /\ UNCHANGED <<rvars, pvars, fvars, mcpVars, envVars, cancelled, mpc, next, wrs, wres, wctx, sem, wg,
                   llmCalls, fullDiff, summary>>

\* main.go:74-75, 66, 348-349: the next result is not there, submit
\* unlocks and returns, the deferred calls release the slot and the
\* WaitGroup
WorkerReturn(i) ==
    /\ Running /\ entry = "cli" /\ wpc[i] = "drain"
    /\ Buffered(p, p.nextToPrint) = {}
    /\ wpc' = [wpc EXCEPT ![i] = "done"]
    /\ sem' = sem - 1
    /\ wg' = wg - 1
    /\ UNCHANGED <<rvars, pvars, fvars, mcpVars, envVars, cancelled, mpc, next, wrs, wres, wctx,
                   p, emitted, outcome, llmCalls, fullDiff, summary>>

(***************************************************************************)
(* The MCP tool, rootcause.go AnalyzeRootCause:182-359.                    *)
(***************************************************************************)
\* analyzer.ExtractDiffs: nil on a failed repository read, else the diff
\* context of the commit, Skipped when no touched file survives the filter
ExtractDiffs(touchedFiles, gitFails) ==
    IF gitFails THEN [set |-> TRUE, isNil |-> TRUE, Skipped |-> FALSE]
    ELSE [set |-> TRUE, isNil |-> FALSE,
          Skipped |-> StandardDiffFiles(touchedFiles) = {}]

\* an assignment that leaves the slot nil
SlotResultMissing(res, ret) == [set |-> FALSE, result |-> res, err |-> ret]

\* a commitResultInternal stored in results
SlotResult(res, ret) == [set |-> TRUE, result |-> res, err |-> ret]

\* rootcause.go:182-187, no commit was selected: an empty output is returned
EmptyRun ==
    /\ entry = "mcp" /\ mpc = "phase1"
    /\ numCommits = 0
    /\ summary' = [NoSummary EXCEPT !.Type = "summary"]
    /\ mpc' = "done"
    /\ UNCHANGED <<rvars, pvars, fvars, envVars, cliVars, mcpVars, cancelled, next, wpc, wrs, wres,
                   wctx, sem, wg, llmCalls, fullDiff>>

\* rootcause.go:202-204, Phase 1 finds ctx done and returns ctx.Err()
ExtractCancelled ==
    /\ entry = "mcp" /\ mpc = "phase1"
    /\ next < numCommits
    /\ cancelled
    /\ mpc' = "aborted"
    /\ UNCHANGED <<rvars, pvars, fvars, envVars, cliVars, mcpVars, cancelled, next, wpc, wrs, wres,
                   wctx, sem, wg, llmCalls, fullDiff, summary>>

\* rootcause.go:205-214, Phase 1 calls ExtractDiffs for commit next
ExtractBegin ==
    /\ entry = "mcp" /\ mpc = "phase1"
    /\ next < numCommits
    /\ ~cancelled
    /\ mpc' = "extract"
    /\ UNCHANGED <<rvars, pvars, fvars, envVars, cliVars, mcpVars, cancelled, next, wpc, wrs, wres,
                   wctx, sem, wg, llmCalls, fullDiff, summary>>

\* a loop that hands commit i to Phase 2 as soon as it is extracted
PhaseOneAdvancePipelined(i, n) == [next |-> i, mpc |-> "phase2"]

\* rootcause.go:201 and 228-236, the loop of Phase 1 after commit i of n:
\* it goes on with commit i + 1, and after the last commit the loop of
\* Phase 2 starts at commit 0
PhaseOneAdvance(i, n) ==
    IF i + 1 = n THEN [next |-> 0, mpc |-> "phase2"]
    ELSE [next |-> i + 1, mpc |-> "phase1"]

\* rootcause.go:214-225, ExtractDiffs returns and its result is stored
ExtractEnd(gitFails) ==
    /\ entry = "mcp" /\ mpc = "extract"
    /\ diffContexts' =
          [diffContexts EXCEPT ![next] = ExtractDiffs(touched[next], gitFails)]
    /\ fullDiff' = [fullDiff EXCEPT ![next] =
          ~gitFails /\ StandardDiffFiles(touched[next]) # {}]
    /\ next' = PhaseOneAdvance(next, numCommits).next
    /\ mpc' = PhaseOneAdvance(next, numCommits).mpc
    /\ UNCHANGED <<rvars, pvars, fvars, envVars, cliVars, results, cancelled, wpc, wrs, wres, wctx,
                   sem, wg, llmCalls, summary>>

\* rootcause.go:237 and 248, the tests of Phase 2: a diff context that is
\* neither nil nor skipped goes to a worker
NeedsWorker(dc) == ~dc.isNil /\ ~dc.Skipped

\* rootcause.go:236-255, Phase 2 stores the outcome of a commit whose
\* extraction failed or that is skipped, without a worker
DirectResult ==
    /\ entry = "mcp" /\ mpc = "phase2"
    /\ next < numCommits
    /\ ~NeedsWorker(diffContexts[next])
    /\ results' = [results EXCEPT ![next] =
          IF diffContexts[next].isNil
          THEN SlotResult(NilResult, [kind |-> "plain", err |-> OtherErr])
          ELSE SlotResult(SkippedResult, [kind |-> "nil", err |-> NilErr])]
    /\ next' = next + 1
    /\ UNCHANGED <<rvars, pvars, fvars, envVars, cliVars, diffContexts, cancelled, mpc, wpc, wrs,
                   wres, wctx, sem, wg, llmCalls, fullDiff, summary>>

\* rootcause.go:257-260, Phase 2 takes a slot and starts the worker
DispatchWorker ==
    /\ entry = "mcp" /\ mpc = "phase2"
    /\ next < numCommits
    /\ NeedsWorker(diffContexts[next])
    /\ ChanCanSend(sem, numWorkers)
    /\ wg' = wg + 1
    /\ sem' = sem + 1
    /\ wpc' = [wpc EXCEPT ![next] = "start"]
    /\ next' = next + 1
    /\ UNCHANGED <<rvars, pvars, fvars, envVars, cliVars, mcpVars, cancelled, mpc, wrs, wres, wctx,
                   llmCalls, fullDiff, summary>>

\* rootcause.go:311-313, the loop of Phase 2 ends, wg.Wait is called
Phase2End ==
    /\ entry = "mcp" /\ mpc = "phase2"
    /\ next = numCommits
    /\ mpc' = "mwait"
    /\ UNCHANGED <<rvars, pvars, fvars, envVars, cliVars, mcpVars, cancelled, next, wpc, wrs, wres,
                   wctx, sem, wg, llmCalls, fullDiff, summary>>

IsErrorResult(r) == r.err.kind # "nil" \/ r.result.isNil
IsSkippedResult(r) == ~IsErrorResult(r) /\ r.result.Skipped
IsHighResult(r) ==
    ~IsErrorResult(r) /\ ~r.result.Skipped /\ r.result.Probability = "HIGH"
IsMediumResult(r) ==
    ~IsErrorResult(r) /\ ~r.result.Skipped /\ r.result.Probability = "MEDIUM"
IsLowResult(r) ==
    ~IsErrorResult(r) /\ ~r.result.Skipped /\ r.result.Probability = "LOW"

\* rootcause.go:326-348, the counter that the loop advances for a result;
\* a result with no tier advances none
ResultClass(r) ==
    IF IsErrorResult(r) THEN "errors"
    ELSE IF IsSkippedResult(r) THEN "skipped"
    ELSE IF IsHighResult(r) THEN "high"
    ELSE IF IsMediumResult(r) THEN "medium"
    ELSE IF IsLowResult(r) THEN "low"
    ELSE "none"

\* the number of results of the first n slots that advance counter cls
CountResults(rr, n, cls) ==
    Cardinality({i \in 0 .. n - 1 : ResultClass(rr[i]) = cls})

\* rootcause.go:317-356, the summary of the output
BuildSummary(rr, n) ==
    [Type |-> "summary", Total |-> n,
     High |-> CountResults(rr, n, "high"),
     Medium |-> CountResults(rr, n, "medium"),
     Low |-> CountResults(rr, n, "low"),
     Skipped |-> CountResults(rr, n, "skipped"),
     Errors |-> CountResults(rr, n, "errors")]

\* rootcause.go:313-358, wg.Wait returns, the output is built and returned
BuildOutput ==
    /\ entry = "mcp" /\ mpc = "mwait"
    /\ wg = 0
    /\ summary' = BuildSummary(results, numCommits)
    /\ mpc' = "done"
    /\ UNCHANGED <<rvars, pvars, fvars, envVars, cliVars, mcpVars, cancelled, next, wpc, wrs, wres,
                   wctx, sem, wg, llmCalls, fullDiff>>

\* rootcause.go:260-274, the worker finds ctx done: it stores ctx.Err() in
\* its slot and returns, the deferred calls release the slot and the
\* WaitGroup
McpWorkerCancelled(i) ==
    /\ entry = "mcp" /\ wpc[i] = "start"
    /\ cancelled
    /\ results' = [results EXCEPT ![i] =
          SlotResult(NilResult, WorkerCancelledErr)]
    /\ wpc' = [wpc EXCEPT ![i] = "done"]
    /\ sem' = sem - 1
    /\ wg' = wg - 1
    /\ UNCHANGED <<rvars, pvars, fvars, envVars, cliVars, diffContexts, cancelled, mpc, next, wrs,
                   wres, wctx, llmCalls, fullDiff, summary>>

\* rootcause.go:273-290, ctx is live: reqCtx is made and WithRetry makes
\* the first call of AnalyzeWithDiffs, which calls the reasoning service
McpWorkerStart(i) ==
    /\ entry = "mcp" /\ wpc[i] = "start"
    /\ ~cancelled
    /\ wrs' = [wrs EXCEPT ![i] = RetryStart(DefaultRetryConfig)]
    /\ wpc' = [wpc EXCEPT ![i] = "llm"]
    /\ llmCalls' = [llmCalls EXCEPT ![i] = @ + 1]
    /\ UNCHANGED <<rvars, pvars, fvars, envVars, cliVars, mcpVars, cancelled, mpc, next, wres, wctx,
                   sem, wg, fullDiff, summary>>

\* rootcause.go:294-310 and 261-262, WithRetry has returned: the worker
\* stores its result in its slot and returns
McpWorkerStore(i) ==
    /\ entry = "mcp" /\ wpc[i] = "store"
    /\ results' = [results EXCEPT ![i] = SlotResult(wres[i], wrs[i].ret)]
    /\ wpc' = [wpc EXCEPT ![i] = "done"]
    /\ wrs' = [wrs EXCEPT ![i] = IdleRetry]
    /\ wres' = [wres EXCEPT ![i] = NilResult]
    /\ wctx' = [wctx EXCEPT ![i] = "live"]
    /\ sem' = sem - 1
    /\ wg' = wg - 1
    /\ UNCHANGED <<rvars, pvars, fvars, envVars, cliVars, diffContexts, cancelled, mpc, next,
                   llmCalls, fullDiff, summary>>

McpMain ==
    \/ EmptyRun \/ ExtractCancelled \/ ExtractBegin
    \/ \E gitFails \in BOOLEAN : ExtractEnd(gitFails)
    \/ DirectResult \/ DispatchWorker \/ Phase2End \/ BuildOutput

McpWorker(i) ==
    McpWorkerCancelled(i) \/ McpWorkerStart(i) \/ McpWorkerStore(i)

CliMain ==
    \/ Dispatch \/ DispatchEnd \/ SelectDone \/ SelectCancelled
    \/ LogWarnEnd \/ GraceTimeout \/ TakeSummary \/ EncodeSummaryEnd

CliWorker(i) ==
    \/ WorkerStartCancelled(i) \/ WorkerStart(i) \/ WorkerLogEnd(i)
    \/ \E gitFails \in BOOLEAN : AnalyzeCommitGit(i, gitFails)
    \/ Submit(i) \/ PrintBegin(i) \/ PrintEnd(i) \/ WorkerReturn(i)

RetryWorker(i) ==
    \/ WorkerExpire(i)
    \/ \E resp \in Responses \cup {"ctx-deadline", "ctx-canceled"} :
          ReasoningReturns(i, resp)
    \/ BackoffTimer(i) \/ BackoffCtxDone(i)

\* a goroutine exists only for a dispatched commit: the worker of any other
\* slot stays "idle" and none of its actions is enabled
OrchNext ==
    \/ CliMain
    \/ McpMain
    \/ Cancel
    \/ \E i \in Slots : CliWorker(i)
    \/ \E i \in Slots : McpWorker(i)
    \/ \E i \in Slots : RetryWorker(i)

\* the variables of the other specification keep their initial value
RetryParked ==
    /\ rcfg = DefaultRetryConfig
    /\ fn = [c \in 1 .. ScriptLen |-> NilErr]
    /\ rs = IdleRetry
    /\ rctx = "live"

OrchParked ==
    /\ entry = "none"
    /\ numCommits = 0
    /\ numWorkers = 1
    /\ verbose = FALSE
    /\ touched = [i \in Slots |-> {}]
    /\ cancelled = FALSE
    /\ mpc = "done"
    /\ next = 0
    /\ wpc = [i \in Slots |-> "idle"]
    /\ wrs = [i \in Slots |-> IdleRetry]
    /\ wres = [i \in Slots |-> NilResult]
    /\ wctx = [i \in Slots |-> "live"]
    /\ sem = 0
    /\ wg = 0
    /\ p = newOrderedPrinter(0)
    /\ emitted = << >>
    /\ outcome = [i \in Slots |-> "none"]
    /\ llmCalls = [i \in Slots |-> 0]
    /\ fullDiff = [i \in Slots |-> FALSE]
    /\ summary = NoSummary
    /\ transient = 0
    /\ diffContexts = [i \in Slots |-> NoContext]
    /\ results = [i \in Slots |-> NoResult]

ParseParked ==
    /\ response = << >>
    /\ parsePc = "done"
    /\ parsed = ZeroResult

FnParked ==
    /\ fnCall = NoCall
    /\ fnPc = "done"
    /\ fnRet = NoCall

\* the variables of the specifications of the analysis run, of WithRetry
\* and of the response parser keep their initial value
AllParked == RetryParked /\ OrchParked /\ ParseParked

Init == OrchInit /\ RetryParked /\ ParseParked /\ FnParked
Next == OrchNext
Spec == Init /\ [][Next]_vars

\* Every goroutine that can take a step eventually takes one: the main
\* goroutine of either entry point and each worker, whose reasoning call
\* returns or is ended by its per-call timeout.  The interrupt (Cancel) is
\* an event of the environment and is not required to happen.
Fairness ==
    /\ WF_vars(CliMain)
    /\ WF_vars(McpMain)
    /\ \A i \in Slots : WF_vars(CliWorker(i) \/ McpWorker(i) \/ RetryWorker(i))

SpecLive == Init /\ [][Next]_vars /\ Fairness

InitRetry == RetryInit /\ OrchParked /\ ParseParked /\ FnParked
SpecRetry == InitRetry /\ [][RetryNext]_vars

InitParse == ParseInit /\ RetryParked /\ OrchParked /\ FnParked
SpecParse == InitParse /\ [][Parse]_vars

(***************************************************************************)
(* The classification of one error by IsRetryable, retry.go:30-67: nil,    *)
(* the context errors, a *googleapi.Error with any code and message, an    *)
(* error made by errors.New with any message.                              *)
(***************************************************************************)
Words == {"connection", "Connection", "reset", "refused", "no", "such",
          "host", "timeout", "TIMEOUT", "temporary", "failure", "other"}
Messages == UNION {[1 .. n -> Words] : n \in 0 .. MaxWords}
Codes == {400, 404, 429, 499, 500, 501, 502, 503, 504, 505, 599, 600}

Errors ==
    {NilErr, DeadlineExceeded, Canceled}
    \cup [kind : {"api"}, code : Codes, msg : Messages]
    \cup [kind : {"plain"}, code : {0}, msg : Messages]

InitClassify ==
    /\ fnCall \in [fn : {"IsRetryable"}, err : Errors]
    /\ fnPc = "ready"
    /\ fnRet = NoCall
    /\ AllParked

\* IsRetryable(err) returns
Classify ==
    /\ fnPc = "ready" /\ fnCall.fn = "IsRetryable"
    /\ fnRet' = [fn |-> "IsRetryable", retryable |-> IsRetryable(fnCall.err)]
    /\ fnPc' = "done"
    /\ UNCHANGED <<rvars, ovars, pvars, fnCall>>

SpecClassify == InitClassify /\ [][Classify]_vars

(***************************************************************************)
(* TruncateDiff, engine.go:280-303.  A diff is a sequence of bytes, "a"    *)
(* for any byte of a line and "\n"; the truncation marker is a sequence    *)
(* that begins and ends with "\n", as the constant of engine.go:273.       *)
(***************************************************************************)
TruncationMarker == <<"\n", "[truncated]", "\n">>

\* strings.LastIndex(str, b): the 0-based position of the last b, -1 when
\* there is none
LastIndexByte(str, b) ==
    LET hits == {k \in 0 .. Len(str) - 1 : str[k + 1] = b}
    IN  IF hits = {} THEN -1 ELSE CHOOSE k \in hits : \A h \in hits : h <= k

\* a TruncateDiff that leaves no room for the marker
TruncateDiffNoRoom(diff, maxSize) ==
    IF Len(diff) <= maxSize THEN diff
    ELSE IF maxSize <= 0 THEN << >>
    ELSE SubSeq(diff, 1, maxSize) \o TruncationMarker

\* a TruncateDiff that never looks for a line boundary
TruncateDiffHardCut(diff, maxSize) ==
    IF Len(diff) <= maxSize THEN diff
    ELSE LET markerLen == Len(TruncationMarker)
         IN  IF maxSize <= markerLen
             THEN IF maxSize <= 0 THEN << >> ELSE SubSeq(diff, 1, maxSize)
             ELSE SubSeq(diff, 1, maxSize - markerLen) \o TruncationMarker

\* engine.go:280-303, TruncateDiff
TruncateDiff(diff, maxSize) ==
    IF Len(diff) <= maxSize THEN diff
    ELSE LET markerLen == Len(TruncationMarker)
         IN  IF maxSize <= markerLen
             THEN IF maxSize <= 0 THEN << >> ELSE SubSeq(diff, 1, maxSize)
             ELSE LET truncateAt == maxSize - markerLen
                      lastNewline ==
                          LastIndexByte(SubSeq(diff, 1, truncateAt), "\n")
                      cut == IF lastNewline > truncateAt \div 2
                             THEN lastNewline ELSE truncateAt
                  IN  SubSeq(diff, 1, cut) \o TruncationMarker

Diffs == UNION {[1 .. n -> {"a", "\n"}] : n \in 0 .. MaxDiffLen}

InitTruncate ==
    /\ fnCall \in [fn : {"TruncateDiff"}, diff : Diffs,
                   maxSize : -1 .. MaxDiffLen + 1]
    /\ fnPc = "ready"
    /\ fnRet = NoCall
    /\ AllParked

\* TruncateDiff(diff, maxSize) returns
Truncate ==
    /\ fnPc = "ready" /\ fnCall.fn = "TruncateDiff"
    /\ fnRet' = [fn |-> "TruncateDiff",
                 out |-> TruncateDiff(fnCall.diff, fnCall.maxSize)]
    /\ fnPc' = "done"
    /\ UNCHANGED <<rvars, ovars, pvars, fnCall>>

SpecTruncate == InitTruncate /\ [][Truncate]_vars

(***************************************************************************)
(* GetFullDiff, engine.go:388-456.  The patch from the commit's tree to    *)
(* the tree of the branch tip is a sequence of file patches; a file patch  *)
(* has the path of its file in the commit (from, "" when the file was      *)
(* added) and at the tip (to, "" when it was deleted), a binary flag and   *)
(* its chunks; the content of a chunk is given by its lines, as            *)
(* strings.Split returns them.  The text built is a sequence of lines.     *)
(***************************************************************************)
MaxDiffSize == 50000

FullDiffPaths == {"main.go", "util.go"}

ChunkLists ==
    {<< >>,
     <<[type |-> 1, content |-> <<"x", "">>]>>,
     <<[type |-> 0, content |-> << >>], [type |-> 2, content |-> <<"y">>]>>}

FilePatches ==
    {fp \in [from : FullDiffPaths \cup {""}, to : FullDiffPaths \cup {""},
             binary : BOOLEAN, chunks : ChunkLists] :
        fp.from # "" \/ fp.to # ""}

\* engine.go:415-422, the path of a file patch
PatchPath(fp) == IF fp.to # "" THEN fp.to ELSE fp.from

\* engine.go:431-439
ChunkOp(type) ==
    CASE type = 1 -> "+"
      [] type = 2 -> "-"
      [] OTHER -> " "

\* engine.go:440-446, the lines written for the lines of one chunk
RECURSIVE ChunkLines(_, _)
ChunkLines(op, lines) ==
    IF lines = << >> THEN << >>
    ELSE (IF Head(lines) = "" THEN << >>
          ELSE <<[op |-> op, text |-> Head(lines)]>>)
         \o ChunkLines(op, Tail(lines))

\* engine.go:426-447, the lines written for the chunks of one file patch
RECURSIVE ChunksLines(_)
ChunksLines(chunks) ==
    IF chunks = << >> THEN << >>
    ELSE ChunkLines(ChunkOp(Head(chunks).type), Head(chunks).content)
         \o ChunksLines(Tail(chunks))

\* engine.go:424-425, the header line of a section
SectionHeader(path) == [op |-> "---", text |-> path]

\* engine.go:451-453
Placeholder ==
    <<[op |-> "", text |-> "No further changes to these files since this commit."]>>

\* a loop that writes a section for every file patch that is not binary,
\* whatever its path
RECURSIVE FullDiffLinesUnfiltered(_, _)
FullDiffLinesUnfiltered(patches, fileSet) ==
    IF patches = << >> THEN << >>
    ELSE LET fp == Head(patches)
         IN  (IF ~fp.binary
              THEN <<SectionHeader(PatchPath(fp))>> \o ChunksLines(fp.chunks)
              ELSE << >>)
             \o FullDiffLinesUnfiltered(Tail(patches), fileSet)

\* engine.go:414-449, the loop over patch.FilePatches()
RECURSIVE FullDiffLines(_, _)
FullDiffLines(patches, fileSet) ==
    IF patches = << >> THEN << >>
    ELSE LET fp == Head(patches)
         IN  (IF PatchPath(fp) \in fileSet /\ ~fp.binary
              THEN <<SectionHeader(PatchPath(fp))>> \o ChunksLines(fp.chunks)
              ELSE << >>)
             \o FullDiffLines(Tail(patches), fileSet)

\* engine.go:388-456, GetFullDiff when the trees and the patch are read
\* without error
GetFullDiff(patches, filterFiles) ==
    LET sb == FullDiffLines(patches, filterFiles)
    IN  IF Len(sb) = 0 THEN Placeholder ELSE TruncateDiff(sb, MaxDiffSize)

InitFullDiff ==
    /\ fnCall \in [fn : {"GetFullDiff"},
                   patches : UNION {[1 .. n -> FilePatches] : n \in 0 .. MaxPatches},
                   filterFiles : SUBSET FullDiffPaths]
    /\ fnPc = "ready"
    /\ fnRet = NoCall
    /\ AllParked

\* GetFullDiff(c, head, filterFiles) returns
FullDiff ==
    /\ fnPc = "ready" /\ fnCall.fn = "GetFullDiff"
    /\ fnRet' = [fn |-> "GetFullDiff",
                 out |-> GetFullDiff(fnCall.patches, fnCall.filterFiles)]
    /\ fnPc' = "done"
    /\ UNCHANGED <<rvars, ovars, pvars, fnCall>>

SpecFullDiff == InitFullDiff /\ [][FullDiff]_vars

(***************************************************************************)
(* Commit selection: CollectCommits, orchestrator.go:61-117, and the same  *)
(* loop in main.go:309-331 and rootcause.go:162-180.  The history is the   *)
(* sequence of commits in the order repo.Log yields them from the resolved *)
(* reference; history[k] is the number of parents of the k-th commit, and  *)
(* a commit is identified by its position k.                               *)
(***************************************************************************)
DefaultNumCommits == 5

\* a loop in which a skipped merge commit uses up one unit of the limit
RECURSIVE CollectLoopCountingMerges(_, _, _, _)
CollectLoopCountingMerges(history, pos, limit, commits) ==
    IF ~(Len(commits) + (pos - 1 - Len(commits)) < limit) THEN commits
    ELSE IF pos > Len(history) THEN commits
    ELSE IF history[pos] > 1
         THEN CollectLoopCountingMerges(history, pos + 1, limit, commits)
    ELSE CollectLoopCountingMerges(history, pos + 1, limit, Append(commits, pos))

\* orchestrator.go:98-114 (main.go:312-331, rootcause.go:164-180): the loop
\* with the iterator at pos; count is len(commits)
RECURSIVE CollectLoop(_, _, _, _)
CollectLoop(history, pos, limit, commits) ==
    IF ~(Len(commits) < limit) THEN commits
    ELSE IF pos > Len(history) THEN commits
    ELSE IF history[pos] > 1 THEN CollectLoop(history, pos + 1, limit, commits)
    ELSE CollectLoop(history, pos + 1, limit, Append(commits, pos))

\* orchestrator.go:61-117, CollectCommits when the reference resolves and
\* the walk meets no error
CollectCommits(history, numCommitsOpt) ==
    CollectLoop(history, 1,
                IF numCommitsOpt <= 0 THEN DefaultNumCommits ELSE numCommitsOpt,
                << >>)

Histories == UNION {[1 .. n -> 0 .. 2] : n \in 0 .. MaxHistory}

InitCollect ==
    /\ fnCall \in [fn : {"CollectCommits"}, site : {"CollectCommits", "main"},
                   history : Histories, n : 0 .. MaxHistory + 1]
    /\ fnPc = "ready"
    /\ fnRet = NoCall
    /\ AllParked

\* the selection returns: CollectCommits, or the loop of an entry point
Collect ==
    /\ fnPc = "ready" /\ fnCall.fn = "CollectCommits"
    /\ fnRet' = [fn |-> "CollectCommits",
                 commits |-> IF fnCall.site = "CollectCommits"
                             THEN CollectCommits(fnCall.history, fnCall.n)
                             ELSE CollectLoop(fnCall.history, 1, fnCall.n, << >>)]
    /\ fnPc' = "done"
    /\ UNCHANGED <<rvars, ovars, pvars, fnCall>>

SpecCollect == InitCollect /\ [][Collect]_vars

(***************************************************************************)
(* The worker count of a run: validator.ValidateNumWorkers and its use by  *)
(* the two entry points, main.go:164, 213-215, 338-341 and                 *)
(* rootcause.go:82-95, 231.                                                *)
(***************************************************************************)
MaxWorkers == 50

\* a validation without the upper limit
ValidateNumWorkersNoMax(n) ==
    IF n <= 0 THEN "must be positive" ELSE "nil"

\* validator.ValidateNumWorkers: the error returned, "nil" for none
ValidateNumWorkers(n) ==
    IF n <= 0 THEN "must be positive"
    ELSE IF n > MaxWorkers THEN "exceeds maximum"
    ELSE "nil"

\* rootcause.go:82-84, the MCP tool replaces a concurrency that is not
\* positive by the configured default; the CLI takes the flag as it is
WorkersInEffect(entryPoint, requested, cfgWorkers) ==
    IF entryPoint = "mcp" /\ requested <= 0 THEN cfgWorkers ELSE requested

\* main.go:213-215, 338-341 and rootcause.go:93-95, 231: the run is
\* rejected, or the semaphore is made with the capacity poolSize
WorkerPool(entryPoint, requested, cfgWorkers) ==
    LET n == WorkersInEffect(entryPoint, requested, cfgWorkers)
    IN  IF ValidateNumWorkers(n) # "nil"
        THEN [fn |-> "WorkerPool", rejected |-> TRUE, poolSize |-> 0]
        ELSE [fn |-> "WorkerPool", rejected |-> FALSE,
              poolSize |-> IF entryPoint = "cli" /\ n < 1 THEN 1 ELSE n]

InitWorkers ==
    /\ fnCall \in [fn : {"WorkerPool"}, entryPoint : {"cli", "mcp"},
                   requested : -1 .. MaxWorkers + 2,
                   cfgWorkers : {0, 3, MaxWorkers + 1}]
    /\ fnPc = "ready"
    /\ fnRet = NoCall
    /\ AllParked

\* the entry point validates its inputs and sizes the pool
SizePool ==
    /\ fnPc = "ready" /\ fnCall.fn = "WorkerPool"
    /\ fnRet' = WorkerPool(fnCall.entryPoint, fnCall.requested, fnCall.cfgWorkers)
    /\ fnPc' = "done"
    /\ UNCHANGED <<rvars, ovars, pvars, fnCall>>

SpecWorkers == InitWorkers /\ [][SizePool]_vars

(***************************************************************************)
(* CalculateSummary, orchestrator.go:139-169.  A CommitAnalysisResult has  *)
(* an Error (here: whether it is non-nil) and a Result, nil or an          *)
(* AnalysisResult with its Skipped flag and its Probability, which is a    *)
(* string: one of the three tiers or, for its zero value, "".              *)
(***************************************************************************)
AnalysisResults ==
    [isNil : {FALSE}, Skipped : BOOLEAN, Probability : {"HIGH", "MEDIUM", "LOW", ""}]
    \cup {[isNil |-> TRUE, Skipped |-> FALSE, Probability |-> ""]}

CommitAnalysisResults == [Error : BOOLEAN, Result : AnalysisResults]

ZeroSummary ==
    [Total |-> 0, High |-> 0, Medium |-> 0, Low |-> 0, Skipped |-> 0, Errors |-> 0]

\* orchestrator.go:145-165, one iteration of the loop
CountResult(smry, r) ==
    IF r.Error THEN [smry EXCEPT !.Errors = @ + 1]
    ELSE IF r.Result.isNil THEN [smry EXCEPT !.Errors = @ + 1]
    ELSE IF r.Result.Skipped THEN [smry EXCEPT !.Skipped = @ + 1]
    ELSE CASE r.Result.Probability = "HIGH" -> [smry EXCEPT !.High = @ + 1]
           [] r.Result.Probability = "MEDIUM" -> [smry EXCEPT !.Medium = @ + 1]
           [] r.Result.Probability = "LOW" -> [smry EXCEPT !.Low = @ + 1]
           [] OTHER -> smry

RECURSIVE CountResultsFrom(_, _, _)
CountResultsFrom(rr, k, smry) ==
    IF k > Len(rr) THEN smry
    ELSE CountResultsFrom(rr, k + 1, CountResult(smry, rr[k]))

\* orchestrator.go:139-169, CalculateSummary
CalculateSummary(rr) ==
    CountResultsFrom(rr, 1, [ZeroSummary EXCEPT !.Total = Len(rr)])

InitSummary ==
    /\ fnCall \in [fn : {"CalculateSummary"},
                   results : UNION {[1 .. n -> CommitAnalysisResults] :
                                       n \in 0 .. MaxResults}]
    /\ fnPc = "ready"
    /\ fnRet = NoCall
    /\ AllParked

\* CalculateSummary(results) returns
Summarize ==
    /\ fnPc = "ready" /\ fnCall.fn = "CalculateSummary"
    /\ fnRet' = [fn |-> "CalculateSummary",
                 summary |-> CalculateSummary(fnCall.results)]
    /\ fnPc' = "done"
    /\ UNCHANGED <<rvars, ovars, pvars, fnCall>>

SpecSummary == InitSummary /\ [][Summarize]_vars

(***************************************************************************)
(* LoadConfig and SaveConfig of the config package.  A path is a sequence  *)
(* of bytes, "~", "/" or "a" for any other byte.  The environment of a     *)
(* call says whether os.UserHomeDir fails, what reading the file gives     *)
(* ("missing", "unreadable", "malformed" or "valid" YAML), and whether     *)
(* os.MkdirAll and os.WriteFile fail.  A call returns, or it panics: Go    *)
(* panics on the slice expression s[:2] of a string shorter than 2 bytes.  *)
(***************************************************************************)
ConfigPaths == UNION {[1 .. n -> {"~", "/", "a"}] : n \in 0 .. MaxPathLen}

ConfigEnvs ==
    [homeErr : BOOLEAN, file : {"missing", "unreadable", "malformed", "valid"},
     mkdirErr : BOOLEAN, writeErr : BOOLEAN]

\* the slice expression path[:2]: its value, or a panic
SlicePrefix2(path) ==
    IF Len(path) < 2 THEN [panic |-> TRUE, value |-> << >>]
    ELSE [panic |-> FALSE, value |-> SubSeq(path, 1, 2)]

\* filepath.Join(home, path[2:]), the home directory being "/h"
JoinHome(path) == <<"/", "h", "/">> \o SubSeq(path, 3, Len(path))

\* LoadConfig: the outcome of the call
LoadConfig(path, env) ==
    IF path = << >> THEN [kind |-> "config", defaults |-> TRUE]
    ELSE IF SlicePrefix2(path).panic THEN [kind |-> "panic", defaults |-> FALSE]
    ELSE IF SlicePrefix2(path).value = <<"~", "/">> /\ env.homeErr
         THEN [kind |-> "error", defaults |-> FALSE]
    ELSE CASE env.file = "missing" -> [kind |-> "config", defaults |-> TRUE]
           [] env.file = "valid" -> [kind |-> "config", defaults |-> FALSE]
           [] OTHER -> [kind |-> "error", defaults |-> FALSE]

\* SaveConfig: the outcome of the call and the path written
SaveConfig(path, env) ==
    IF SlicePrefix2(path).panic THEN [kind |-> "panic", written |-> << >>]
    ELSE IF SlicePrefix2(path).value = <<"~", "/">> /\ env.homeErr
         THEN [kind |-> "error", written |-> << >>]
    ELSE IF env.mkdirErr \/ env.writeErr THEN [kind |-> "error", written |-> << >>]
    ELSE [kind |-> "nil",
          written |-> IF SlicePrefix2(path).value = <<"~", "/">>
                      THEN JoinHome(path) ELSE path]

InitConfig ==
    /\ fnCall \in [fn : {"LoadConfig", "SaveConfig"}, path : ConfigPaths,
                   env : ConfigEnvs]
    /\ fnPc = "ready"
    /\ fnRet = NoCall
    /\ AllParked

\* LoadConfig(path) or SaveConfig(cfg, path) returns or panics
CallConfig ==
    /\ fnPc = "ready" /\ fnCall.fn \in {"LoadConfig", "SaveConfig"}
    /\ fnRet' = IF fnCall.fn = "LoadConfig"
                THEN LoadConfig(fnCall.path, fnCall.env)
                ELSE SaveConfig(fnCall.path, fnCall.env)
    /\ fnPc' = "done"
    /\ UNCHANGED <<rvars, ovars, pvars, fnCall>>

SpecConfig == InitConfig /\ [][CallConfig]_vars

(***************************************************************************)
(* The backoff computation of WithRetry, retry.go:87-91, for any           *)
(* RetryConfig with non-negative delays and any attempt.                   *)
(***************************************************************************)
InitBackoff ==
    /\ fnCall \in [fn : {"BackoffDelay"}, BaseDelay : 0 .. MaxDuration,
                   MaxDelay : 0 .. MaxDuration, attempt : 0 .. MaxShift]
    /\ fnPc = "ready"
    /\ fnRet = NoCall
    /\ AllParked

\* retry.go:88-91, delay is computed and capped
ComputeBackoff ==
    /\ fnPc = "ready" /\ fnCall.fn = "BackoffDelay"
    /\ fnRet' = [fn |-> "BackoffDelay",
                 delay |-> BackoffDelay(fnCall, fnCall.attempt)]
    /\ fnPc' = "done"
    /\ UNCHANGED <<rvars, ovars, pvars, fnCall>>

SpecBackoff == InitBackoff /\ [][ComputeBackoff]_vars

(***************************************************************************)
(* Properties of an analysis run, checked under Spec.                      *)
(***************************************************************************)
SummaryProduced == summary.Type = "summary"

\* the commits whose terminal outcome has been emitted: by the CLI to the
\* sink, by the MCP tool into its results
EmittedCount(i) ==
    IF entry = "cli"
    THEN Cardinality({k \in 1 .. Len(emitted) : emitted[k] = i})
    ELSE IF results[i].set THEN 1 ELSE 0

\* C1: when the run summary is produced, every commit index 0..N-1 has
\* yielded exactly one terminal outcome, so exactly N outcomes have been
\* emitted, under every interleaving of workers, failures and cancellation.
C1_Completeness ==
    SummaryProduced => \A i \in Commits : EmittedCount(i) = 1

\* C2: the sink receives the outcomes in the order 0, 1, 2, ...: the k-th
\* outcome emitted is that of index k-1, so no index is emitted before all
\* smaller indices, whatever order the workers complete in.
C2_OrderedEmission ==
    \A k \in 1 .. Len(emitted) : emitted[k] = k - 1

\* worker 1 completed and returned before worker 0 submitted, and worker 0
\* has then emitted both outcomes
C2_Witness ==
    /\ entry = "cli" /\ numCommits = 2
    /\ wpc[1] = "done" /\ wpc[0] = "drain"
    /\ emitted = <<0, 1>>

\* C3: every run summary that is emitted satisfies
\* high + medium + low + skipped + errors = total, with total the number
\* of selected commits.
C3_Accounting ==
    SummaryProduced =>
        /\ summary.Total = numCommits
        /\ summary.High + summary.Medium + summary.Low + summary.Skipped
              + summary.Errors = summary.Total

\* no touched file of commit i survives the filter: every one is binary or
\* matches the ignore policy
FilteredEmpty(i) == \A f \in touched[i] : IsBinary(f) \/ ShouldIgnoreFile(f)

\* the non-nil results and diff contexts held anywhere for commit i
HeldResults(i) ==
    (IF wpc[i] \in {"submit", "store"} /\ ~wres[i].isNil THEN {wres[i]} ELSE {})
    \cup {r.result : r \in {x \in Buffered(p, i) : ~x.result.isNil}}
    \cup (IF results[i].set /\ ~results[i].result.isNil
          THEN {results[i].result} ELSE {})
    \cup (IF diffContexts[i].set /\ ~diffContexts[i].isNil
          THEN {diffContexts[i]} ELSE {})

\* the commits whose outcome has been counted
Counted ==
    IF entry = "cli" THEN {i \in Commits : i < p.nextToPrint}
    ELSE IF SummaryProduced THEN Commits ELSE {}

Counters == IF entry = "cli" THEN MakeSummary(p) ELSE summary

\* C4: a commit is marked Skipped if and only if its filtered touched-file
\* set is empty; for such a commit no full diff is computed and no
\* reasoning call is issued, and its outcome is counted as skipped (or as
\* an error of its extraction), never as a tier.
C4_SkipCorrectness ==
    /\ \A i \in Commits : \A r \in HeldResults(i) : r.Skipped <=> FilteredEmpty(i)
    /\ \A i \in Commits : FilteredEmpty(i) => (llmCalls[i] = 0 /\ ~fullDiff[i])
    /\ Counters.Skipped <= Cardinality({i \in Counted : FilteredEmpty(i)})
    /\ Counters.High + Counters.Medium + Counters.Low
          <= Cardinality({i \in Counted : ~FilteredEmpty(i)})

\* a lock-file-only commit has been counted as skipped, without a full
\* diff or a reasoning call, next to a commit that got a tier
C4_Witness ==
    /\ entry = "cli" /\ numCommits = 2
    /\ touched[0] = {"main.go", "go.sum"} /\ FilteredEmpty(1)
    /\ p.nextToPrint = 2 /\ p.skipped = 1 /\ p.high = 1
    /\ llmCalls[1] = 0 /\ ~fullDiff[1] /\ llmCalls[0] = 1

\* C5: no two repository reads are ever in progress at the same time.
C5_NoConcurrentReads == Cardinality(Readers) <= 1

\* the goroutines that hold a slot of the worker pool, and those with a
\* reasoning call in flight
SlotHolders == {i \in Commits : wpc[i] \notin {"idle", "done"}}
InFlight == {i \in Commits : wpc[i] = "llm"}

\* C6: at every moment the number of workers that hold a pool slot, and
\* hence the number of reasoning calls in flight, is at most the
\* configured worker count.
C6_BoundedPool ==
    /\ Cardinality(SlotHolders) <= numWorkers
    /\ Cardinality(InFlight) <= numWorkers

\* the pool is saturated by a call in flight while a commit waits for a slot
C6_Witness ==
    /\ numWorkers = 1 /\ numCommits = 2 /\ next = 1
    /\ wpc[0] = "llm" /\ wpc[1] = "idle"
    /\ mpc \in {"dispatch", "phase2"}

\* C7: at most one goroutine is writing to the result sink (the shared
\* JSON encoder) at any time.
C7_SingleWriter == Cardinality(Writers) <= 1

(***************************************************************************)
(* Properties of WithRetry, checked under SpecRetry.                       *)
(***************************************************************************)
\* the operation fails with a retryable error on its first k invocations
\* and succeeds on invocation k+1
FailsThenSucceeds(k) ==
    /\ \A c \in 1 .. k : IsRetryable(fn[c])
    /\ fn[k + 1] = NilErr

AlwaysFailsRetryable == \A c \in 1 .. ScriptLen : IsRetryable(fn[c])

\* C8 as stated: an operation that fails retryably exactly k times
\* (k <= MaxRetries) and then succeeds is invoked exactly k+1 times and
\* WithRetry returns nil, whatever happens to the context.
C8_AsStated ==
    \A k \in 0 .. MaxRetriesBound :
        (rs.pc = "returned" /\ k <= rcfg.MaxRetries /\ FailsThenSucceeds(k))
            => (rs.calls = k + 1 /\ rs.ret.kind = "nil")

\* C8 amended: under a context that is never cancelled and never expires,
\* an operation that fails retryably exactly k times (k <= MaxRetries) and
\* then succeeds is invoked exactly k+1 times and WithRetry returns nil.
C8_SuccessAfterRetries ==
    \A k \in 0 .. MaxRetriesBound :
        (rs.pc = "returned" /\ rctx = "live" /\ k <= rcfg.MaxRetries
            /\ FailsThenSucceeds(k))
            => (rs.calls = k + 1 /\ rs.ret.kind = "nil")

C8_Witness ==
    /\ rs.pc = "returned" /\ rctx = "live" /\ rcfg.MaxRetries = 3
    /\ FailsThenSucceeds(2) /\ rs.calls = 3 /\ rs.ret.kind = "nil"

\* C9: an operation that always fails with a retryable error, under a
\* context that is never cancelled, is invoked exactly MaxRetries+1 times
\* and WithRetry then returns the retry-exhausted error wrapping the error
\* of the last invocation.
C9_MaxRetriesExceeded ==
    (rs.pc = "returned" /\ rctx = "live" /\ AlwaysFailsRetryable)
        => /\ rs.calls = rcfg.MaxRetries + 1
           /\ rs.ret.kind = "exhausted"
           /\ rs.ret.err = IF rs.calls = 0 THEN NilErr ELSE fn[rs.calls]

C9_Witness ==
    /\ rs.pc = "returned" /\ rctx = "live" /\ rcfg.MaxRetries = 3
    /\ AlwaysFailsRetryable /\ rs.calls = 4 /\ rs.ret.kind = "exhausted"
    /\ rs.sleeps = 3

\* C10: when an invocation of the operation returns a non-retryable error,
\* on whichever attempt, WithRetry returns that very error, unwrapped, in
\* the same step: no backoff sleep is entered and, WithRetry having
\* returned, no further invocation follows.
C10_NonRetryableReturns ==
    [][ /\ (rs.pc = "call" /\ rs' # rs /\ fn[rs.calls + 1] # NilErr
             /\ ~IsRetryable(fn[rs.calls + 1]))
            => /\ rs'.pc = "returned"
               /\ rs'.ret = [kind |-> "plain", err |-> fn[rs.calls + 1]]
               /\ rs'.calls = rs.calls + 1
               /\ rs'.sleeps = rs.sleeps
        /\ (rs.pc = "returned") => (rs' = rs) ]_rvars

C10_Witness ==
    /\ rs.pc = "returned" /\ rs.calls = 3 /\ rs.sleeps = 2
    /\ rs.ret = [kind |-> "plain", err |-> ApiErr(400)]

\* C11: when the context is cancelled while WithRetry waits in a backoff
\* sleep, the only step WithRetry then takes is to return the context's
\* error (not the retry-exhausted error), and the operation is not invoked
\* again: the number of invocations stays what it was.
C11_CancelDuringBackoff ==
    [][ /\ (rs.pc = "sleep" /\ ~rs.ctxAtSleep /\ rctx # "live" /\ rs' # rs)
            => /\ rs'.pc = "returned"
               /\ rs'.ret = [kind |-> "ctx", err |-> CtxErr(rctx)]
               /\ rs'.calls = rs.calls
        /\ (rs.pc = "returned" /\ rs.ret.kind = "ctx") => rs'.calls = rs.calls ]_vars

\* the context was cancelled during the sleep after the second invocation
C11_Witness ==
    /\ rs.pc = "returned" /\ ~rs.ctxAtSleep /\ rctx = "canceled"
    /\ rs.ret = [kind |-> "ctx", err |-> Canceled]
    /\ rs.calls = 2 /\ rs.sleeps = 1 /\ rcfg.MaxRetries = 3

(***************************************************************************)
(* Properties of error handling in an analysis run, checked under Spec.    *)
(***************************************************************************)
\* the workers whose WithRetry has returned and whose outcome is not yet
\* handed over
Returned == {i \in Commits : wpc[i] \in {"submit", "store"}}

\* C12: a commit whose reasoning call failed with a transport error
\* (network, quota, timeout, expiry of the per-call timeout included) gets
\* an error outcome only after MaxRetries+1 attempts have failed, unless
\* the run was cancelled.
C12_TransportRetried ==
    \A i \in Returned :
        (/\ wrs[i].ret.kind \notin {"nil", "none"}
         /\ IsRetryable(wrs[i].lastErr)
         /\ wctx[i] # "canceled")
            => wrs[i].calls = DefaultRetryConfig.MaxRetries + 1

\* C13: a response from which no verdict can be recovered is never
\* retried: once a reasoning call of a commit has ended in a parse failure,
\* WithRetry has returned that error as the commit's outcome, whatever the
\* text of the response.
C13_ParseFailureFinal ==
    \A i \in Commits :
        wrs[i].lastErr.kind = "parse"
            => /\ wrs[i].pc = "returned"
               /\ wrs[i].ret = [kind |-> "plain", err |-> wrs[i].lastErr]

\* C14: after commit selection no failure or event (extraction error,
\* transport error, parse error, cancellation) aborts the run or is returned
\* to the caller: the run is never aborted, and when it has ended it has
\* produced a summary.
C14_RunEndsWithSummary ==
    /\ mpc # "aborted"
    /\ mpc = "done" => SummaryProduced

\* every selected commit has produced its terminal outcome: the printer
\* has passed all of them to the sink, the MCP tool has stored all of them
AllTerminal ==
    IF entry = "cli" THEN p.nextToPrint = numCommits
    ELSE \A i \in Commits : results[i].set

\* C15: the summary is produced only when every selected commit has
\* produced its terminal outcome, and once the summary is produced no
\* further outcome is written to the sink.
C15_SummaryLast ==
    [][ /\ SummaryProduced' => AllTerminal'
        /\ SummaryProduced => emitted' = emitted ]_vars

\* the orchestrating goroutine is at the send on sem for the next commit
AtSlotAcquire ==
    /\ next < numCommits
    /\ \/ entry = "cli" /\ mpc = "dispatch"
       \/ /\ entry = "mcp" /\ mpc = "phase2"
          /\ NeedsWorker(diffContexts[next])

\* the orchestrating goroutine cannot take a step until some worker returns:
\* it is in the send on a full sem, or in the wg.Wait of the MCP tool
MainBlockedOnWorkers ==
    \/ AtSlotAcquire /\ ~ChanCanSend(sem, numWorkers)
    \/ entry = "mcp" /\ mpc = "mwait" /\ wg > 0

\* C16: once the run-wide cancellation is raised the orchestrator is not
\* blocked on its workers: neither while acquiring a pool slot nor while
\* waiting for them without a grace timer, so that it reaches the summary
\* even while every slot holder is inside a call (a repository read or a
\* reasoning call) that has not returned.
C16_NotBlockedAfterCancel ==
    (cancelled /\ SlotHolders # {} /\ \A i \in SlotHolders : wpc[i] \in {"git", "llm"})
        => ~MainBlockedOnWorkers

\* diff extraction has failed for commit i: in the MCP tool its diff
\* context is nil, in the CLI the last AnalyzeCommit of its worker returned
\* the error of a repository read
ExtractionFailed(i) ==
    IF entry = "mcp" THEN diffContexts[i].set /\ diffContexts[i].isNil
    ELSE wrs[i].lastErr = OtherErr

\* C17: a commit whose diff extraction failed gets an error outcome
\* without any reasoning call (in the MCP tool without a worker), and the
\* failure does not touch the other commits: extraction is attempted for
\* every commit, and in a run that is not cancelled every other commit with
\* code changes has had its reasoning call when the run is done.
C17_ExtractionFailureIsolated ==
    /\ \A i \in Commits : ExtractionFailed(i) =>
          /\ llmCalls[i] = 0
          /\ entry = "mcp" =>
                /\ wpc[i] = "idle"
                /\ results[i].set => IsErrorResult(results[i])
          /\ entry = "cli" =>
                wrs[i].ret = [kind |-> "plain", err |-> OtherErr]
    /\ (entry = "mcp" /\ mpc \in {"phase2", "mwait", "done"} /\ numCommits > 0)
          => \A j \in Commits : diffContexts[j].set
    /\ (entry = "mcp" /\ mpc = "done" /\ ~cancelled)
          => \A j \in Commits :
                (~ExtractionFailed(j) /\ ~FilteredEmpty(j))
                    => (llmCalls[j] >= 1 /\ results[j].set)

\* the bucket of the terminal outcome of commit i, "none" while it has not
\* been emitted: by the CLI to the sink, by the MCP tool into its results
Outcome(i) ==
    IF entry = "cli" THEN outcome[i]
    ELSE IF results[i].set
         THEN TerminalBucket(results[i].result, results[i].err)
         ELSE "none"

\* the number of commits whose terminal outcome falls in bucket b
InBucket(b) == Cardinality({i \in Commits : Outcome(i) = b})

\* the outcome that the worker of commit i handed over: the value its
\* WithRetry returned, whatever the number of attempts it took
HandedOver(i) == TerminalBucket(wres[i], wrs[i].ret)

ParsedOk == parsePc = "done" /\ parsed.err = "nil"

\* C19: every verdict that a successful parse produces carries a tier that
\* is exactly one of HIGH, MEDIUM, LOW; none has an empty tier or any other
\* value.
C19_TierIsOneOfThree ==
    ParsedOk => parsed.Probability \in {"HIGH", "MEDIUM", "LOW"}

\* the pieces that are prose, with or without unrelated brace pairs
ProsePieces == {"word", "{}", "{word}"}

\* the genuine verdict objects and the tier each one states
VerdictTier(piece) ==
    CASE piece \in {"vHIGH", "vhigh"} -> "HIGH"
      [] piece = "vMED" -> "MEDIUM"
      [] piece = "vmaybe" -> "LOW"
      [] OTHER -> "none"

\* the response is prose around the single verdict object at position k
SingleVerdictAt(k) ==
    /\ k \in 1 .. Len(response)
    /\ VerdictTier(response[k]) # "none"
    /\ \A j \in 1 .. Len(response) : j # k => response[j] \in ProsePieces

\* no object of the response has the verdict field
NoVerdictField ==
    \A j \in 1 .. Len(response) :
        response[j] \in ProsePieces \cup {"noverdict", "}"}

\* C20: when prose with unrelated brace pairs surrounds a single genuine
\* verdict object, the parse returns exactly the tier and the rationale of
\* that object; when no object of the text has the verdict field, the parse
\* fails and returns no verdict.
C20_NoisyTextParsed ==
    parsePc = "done" =>
        /\ \A k \in 1 .. Len(response) :
              SingleVerdictAt(k) =>
                  parsed = [err |-> "nil", Probability |-> VerdictTier(response[k]),
                            Reasoning |-> "R1"]
        /\ NoVerdictField => parsed.err = "no JSON found"

\* the positions of the response that hold a decodable verdict object
VerdictPositions == {k \in 1 .. Len(response) : VerdictTier(response[k]) # "none"}

\* the response is made of decodable verdict objects and of commentary,
\* which may contain brace characters, and has at least one verdict object
VerdictsAndCommentary ==
    /\ VerdictPositions # {}
    /\ \A j \in 1 .. Len(response) :
          j \in VerdictPositions \/ response[j] \in ProsePieces

LastVerdict == CHOOSE k \in VerdictPositions : \A j \in VerdictPositions : j <= k

\* C21: when the text holds several decodable verdict objects, or a
\* decodable verdict object followed by trailing commentary that may itself
\* contain braces, the parse succeeds and returns the last verdict object
\* of the text.
C21_LastVerdictWins ==
    (parsePc = "done" /\ VerdictsAndCommentary) =>
        /\ parsed.err = "nil"
        /\ parsed.Probability = VerdictTier(response[LastVerdict])

(***************************************************************************)
(* Properties of the backoff computation, checked under SpecBackoff.       *)
(***************************************************************************)
\* min(BaseDelay * 2^n, MaxDelay) over the integers
ExactBackoff(cfg, n) ==
    IF cfg.BaseDelay * Pow2(n) > cfg.MaxDelay THEN cfg.MaxDelay
    ELSE cfg.BaseDelay * Pow2(n)

\* C22: for every retry index n >= 0 and every RetryConfig with
\* non-negative BaseDelay and MaxDelay, the backoff sleep before retry n
\* lasts min(BaseDelay * 2^n, MaxDelay): never negative, never shorter than
\* that value, never longer than MaxDelay.
C22_BackoffDelay ==
    (fnPc = "done" /\ fnCall.fn = "BackoffDelay") =>
        /\ fnRet.delay >= 0
        /\ fnRet.delay <= fnCall.MaxDelay
        /\ fnRet.delay = ExactBackoff(fnCall, fnCall.attempt)

(***************************************************************************)
(* Properties of IsRetryable, checked under SpecClassify.                  *)
(***************************************************************************)
Classified == fnPc = "done" /\ fnCall.fn = "IsRetryable"

\* the message contains one of the transient-network phrases, in any letter
\* case
TransientPhrases ==
    {<<"connection", "reset">>, <<"connection", "refused">>,
     <<"no", "such", "host">>, <<"timeout">>, <<"temporary", "failure">>}

SameLetters(w, v) ==
    \/ w = v
    \/ {w, v} \in {{"connection", "Connection"}, {"timeout", "TIMEOUT"}}

MentionsTransientPhrase(msg) ==
    \E ph \in TransientPhrases : \E k \in 0 .. Len(msg) - Len(ph) :
        \A j \in 1 .. Len(ph) : SameLetters(msg[k + j], ph[j])

\* C23 as stated: IsRetryable is true for a deadline-exceeded error, for
\* 429, for every server error with a 5xx status code and for a message
\* with a transient-network phrase in any letter case, and false for nil
\* and for every other error.
C23_AsStated ==
    Classified =>
        (fnRet.retryable <=>
            /\ fnCall.err.kind # "nil"
            /\ \/ fnCall.err.kind = "deadline"
               \/ fnCall.err.kind = "api" /\ fnCall.err.code = 429
               \/ fnCall.err.kind = "api" /\ fnCall.err.code \in 500 .. 599
               \/ MentionsTransientPhrase(fnCall.err.msg))

\* C23: IsRetryable is true for a deadline-exceeded error, for 429, for the
\* server errors 500, 502, 503 and 504, and for a message with a
\* transient-network phrase in any letter case; it is false for nil and for
\* every other error, the other 5xx codes included.
C23_IsRetryable ==
    Classified =>
        (fnRet.retryable <=>
            /\ fnCall.err.kind # "nil"
            /\ \/ fnCall.err.kind = "deadline"
               \/ fnCall.err.kind = "api" /\ fnCall.err.code = 429
               \/ fnCall.err.kind = "api"
                  /\ fnCall.err.code \in {500, 502, 503, 504}
               \/ MentionsTransientPhrase(fnCall.err.msg))

\* "Connection reset ..." made by errors.New has been classified retryable
C23_Witness ==
    /\ Classified
    /\ fnCall.err = [kind |-> "plain", code |-> 0,
                     msg |-> <<"Connection", "reset", "other">>]
    /\ fnRet.retryable

(***************************************************************************)
(* Properties of TruncateDiff, checked under SpecTruncate.                 *)
(***************************************************************************)
Truncated == fnPc = "done" /\ fnCall.fn = "TruncateDiff"

\* the 0-based positions of the newlines of d before position n
NewlinesBefore(d, n) == {k \in 0 .. n - 1 : k < Len(d) /\ d[k + 1] = "\n"}

\* where the prefix ends for a region of n bytes: at the last newline
\* before n when it lies past the midpoint of the region, else at n
PrefixEnd(d, n) ==
    LET nl == NewlinesBefore(d, n)
        last == CHOOSE k \in nl : \A h \in nl : h <= k
    IN  IF nl # {} /\ 2 * last > n THEN last ELSE n

\* C24: TruncateDiff(d, m) returns d unchanged when len(d) <= m; when
\* len(d) > m and m is larger than the marker it returns a prefix of d
\* followed by the marker, the prefix ending at the last newline before
\* m - len(marker) when that newline lies past the midpoint of that region
\* and at m - len(marker) otherwise; when m is not larger than the marker it
\* returns the bare first m bytes (nothing for m <= 0) without a marker.
C24_TruncateDiff ==
    Truncated =>
        LET d == fnCall.diff
            m == fnCall.maxSize
            k == Len(TruncationMarker)
        IN  /\ Len(d) <= m => fnRet.out = d
            /\ (Len(d) > m /\ m > k) =>
                  fnRet.out = SubSeq(d, 1, PrefixEnd(d, m - k)) \o TruncationMarker
            /\ (Len(d) > m /\ m <= k) =>
                  fnRet.out = SubSeq(d, 1, IF m > 0 THEN m ELSE 0)

\* a diff of 8 bytes cut to 7: the region is 4 bytes, its last newline at
\* position 3 is past the midpoint, and the prefix ends there
C24_Witness ==
    /\ Truncated
    /\ fnCall.diff = <<"a", "a", "a", "\n", "a", "a", "a", "a">>
    /\ fnCall.maxSize = 7
    /\ fnRet.out = <<"a", "a", "a">> \o TruncationMarker

\* C37: for every diff d and every threshold m >= 0, TruncateDiff(d, m) is
\* at most m bytes long, and TruncateDiff is idempotent for a fixed
\* threshold: TruncateDiff(TruncateDiff(d, m), m) = TruncateDiff(d, m).
C37_TruncateBounded ==
    (Truncated /\ fnCall.maxSize >= 0) =>
        /\ Len(fnRet.out) <= fnCall.maxSize
        /\ TruncateDiff(fnRet.out, fnCall.maxSize) = fnRet.out

\* a diff of 8 bytes cut to 7: the prefix of 4 bytes and the marker are 7
\* bytes, and truncating the result again returns it unchanged
C37_Witness ==
    /\ Truncated
    /\ fnCall.diff = <<"a", "a", "\n", "a", "a", "a", "a", "a">>
    /\ fnCall.maxSize = 7
    /\ fnRet.out = <<"a", "a", "\n", "a">> \o TruncationMarker
    /\ TruncateDiff(fnRet.out, 7) = fnRet.out

(***************************************************************************)
(* Properties of GetFullDiff, checked under SpecFullDiff.                  *)
(***************************************************************************)
FullDiffDone == fnPc = "done" /\ fnCall.fn = "GetFullDiff"

\* the paths that have a section in a text
SectionPaths(text) ==
    {text[k].text : k \in {j \in 1 .. Len(text) : text[j].op = "---"}}

\* the files that changed between the commit and the tip
ChangedPaths(patches) == {PatchPath(patches[k]) : k \in 1 .. Len(patches)}

\* C25: GetFullDiff emits a section for a file only if its path is in the
\* touched-file set of the standard diff and the file is not binary; its
\* result is never the empty text, and when no touched file changed between
\* the commit and the branch tip it is the fixed placeholder.
C25_FullDiffFiltered ==
    FullDiffDone =>
        /\ \A path \in SectionPaths(fnRet.out) :
              /\ path \in fnCall.filterFiles
              /\ \E k \in 1 .. Len(fnCall.patches) :
                    /\ PatchPath(fnCall.patches[k]) = path
                    /\ ~fnCall.patches[k].binary
        /\ fnRet.out # << >>
        /\ ChangedPaths(fnCall.patches) \cap fnCall.filterFiles = {}
              => fnRet.out = Placeholder

\* main.go and util.go both changed after the commit, only main.go is in
\* the touched-file set: the text has the section of main.go alone
C25_Witness ==
    /\ FullDiffDone
    /\ fnCall.filterFiles = {"main.go"}
    /\ ChangedPaths(fnCall.patches) = {"main.go", "util.go"}
    /\ \A k \in 1 .. Len(fnCall.patches) : ~fnCall.patches[k].binary
    /\ fnRet.out = <<SectionHeader("main.go"), [op |-> "+", text |-> "x"]>>

(***************************************************************************)
(* Properties of commit selection, checked under SpecCollect.              *)
(***************************************************************************)
Collected == fnPc = "done" /\ fnCall.fn = "CollectCommits"

\* the commits of the history with at most one parent
NonMerge(history) == {k \in 1 .. Len(history) : history[k] <= 1}

\* the limit N in effect: CollectCommits replaces a limit that is not
\* positive by the default
LimitInEffect ==
    IF fnCall.site = "CollectCommits" /\ fnCall.n <= 0 THEN DefaultNumCommits
    ELSE fnCall.n

\* C26: commit selection returns the commits in history-walk order, never
\* a commit with more than one parent, and exactly min(N, number of
\* non-merge commits reachable) of them, the first ones of the walk: a
\* skipped merge commit does not count against the limit N.
C26_CommitSelection ==
    Collected =>
        LET out == fnRet.commits
            nm == NonMerge(fnCall.history)
        IN  /\ \A a, b \in 1 .. Len(out) : a < b => out[a] < out[b]
            /\ \A a \in 1 .. Len(out) : out[a] \in nm
            /\ Len(out) = IF LimitInEffect < Cardinality(nm)
                          THEN LimitInEffect ELSE Cardinality(nm)
            /\ \A k \in nm : \A a \in 1 .. Len(out) : k < out[a] =>
                  \E b \in 1 .. Len(out) : out[b] = k

\* with a merge commit second in the walk and N = 2, the first and the
\* third commit are selected
C26_Witness ==
    /\ Collected
    /\ fnCall.history = <<1, 2, 1, 1>>
    /\ fnCall.n = 2
    /\ fnRet.commits = <<1, 3>>

(***************************************************************************)
(* Properties of the worker count, checked under SpecWorkers.              *)
(***************************************************************************)
PoolSized == fnPc = "done" /\ fnCall.fn = "WorkerPool"

\* C27 as stated: the pool never has a size outside 1..50, and both entry
\* points reject a requested worker count outside 1..50.
C27_AsStated ==
    PoolSized =>
        /\ ~fnRet.rejected => fnRet.poolSize \in 1 .. MaxWorkers
        /\ fnRet.rejected <=> fnCall.requested \notin 1 .. MaxWorkers

\* C27: the pool never has a size outside 1..50: ValidateNumWorkers accepts
\* n exactly when 1 <= n <= 50, the CLI rejects a worker count outside that
\* range, and the MCP tool first replaces a count that is not positive by
\* the configured default and rejects the resulting count when it is
\* outside that range; an accepted run has a pool of exactly that count.
C27_PoolSizeInRange ==
    PoolSized =>
        LET n == IF fnCall.entryPoint = "mcp" /\ fnCall.requested <= 0
                 THEN fnCall.cfgWorkers ELSE fnCall.requested
        IN  /\ ValidateNumWorkers(fnCall.requested) = "nil"
                  <=> fnCall.requested \in 1 .. MaxWorkers
            /\ fnRet.rejected <=> n \notin 1 .. MaxWorkers
            /\ ~fnRet.rejected => (fnRet.poolSize = n /\ n \in 1 .. MaxWorkers)

\* the MCP tool was asked for 0 workers and runs with the configured 3;
\* nothing was rejected
C27_Witness ==
    /\ PoolSized
    /\ fnCall.entryPoint = "mcp" /\ fnCall.requested = 0 /\ fnCall.cfgWorkers = 3
    /\ ~fnRet.rejected /\ fnRet.poolSize = 3

(***************************************************************************)
(* Properties of CalculateSummary, checked under SpecSummary.              *)
(***************************************************************************)
Summarized == fnPc = "done" /\ fnCall.fn = "CalculateSummary"

\* the positions of the results that have an error, or no Result
ErrorPositions(rr) ==
    {k \in 1 .. Len(rr) : rr[k].Error \/ rr[k].Result.isNil}

SkippedPositions(rr) ==
    {k \in 1 .. Len(rr) : k \notin ErrorPositions(rr) /\ rr[k].Result.Skipped}

TierPositions(rr, tier) ==
    {k \in 1 .. Len(rr) :
        /\ k \notin ErrorPositions(rr) \cup SkippedPositions(rr)
        /\ rr[k].Result.Probability = tier}

\* C28: CalculateSummary counts each result in exactly one bucket, with the
\* priority error (a non-nil Error, else a nil Result), skipped, tier; Total
\* is the number of results, and the buckets sum to Total.
C28_SummaryBuckets ==
    Summarized =>
        LET rr == fnCall.results
            sm == fnRet.summary
        IN  /\ sm.Total = Len(rr)
            /\ sm.Errors = Cardinality(ErrorPositions(rr))
            /\ sm.Skipped = Cardinality(SkippedPositions(rr))
            /\ sm.High = Cardinality(TierPositions(rr, "HIGH"))
            /\ sm.Medium = Cardinality(TierPositions(rr, "MEDIUM"))
            /\ sm.Low = Cardinality(TierPositions(rr, "LOW"))
            /\ sm.High + sm.Medium + sm.Low + sm.Skipped + sm.Errors = sm.Total

(***************************************************************************)
(* Properties of the ordering buffer of the CLI, checked under Spec.       *)
(***************************************************************************)
\* the sum of the five counters of the orderedPrinter
CounterSum == p.high + p.medium + p.low + p.skipped + p.errors

C30_StreamsAsSoonAsPossible ==
    (entry = "cli" /\ PrinterMuHolders = {}) =>
        /\ \A r \in p.results : r.index > p.nextToPrint
        /\ \A i \in Commits : Outcome(i) # "none" <=> i < p.nextToPrint
        /\ \A i \in Commits : Outcome(i) # "none" => Buffered(p, i) = {}

\* the outcome of commit 1 was submitted first: submit has returned, the
\* outcome waits in the buffer and the cursor is still at commit 0, whose
\* worker has not submitted yet
C30_Witness ==
    /\ entry = "cli" /\ numCommits = 2 /\ PrinterMuHolders = {}
    /\ wpc[1] = "done" /\ wpc[0] \notin {"drain", "print", "done"}
    /\ Buffered(p, 1) # {} /\ p.nextToPrint = 0
    /\ Outcome(1) = "none"

(***************************************************************************)
(* Termination of an analysis run, checked under SpecLive.                 *)
(***************************************************************************)
\* C31: if every reasoning call eventually returns or is aborted by its
\* per-call timeout, every run terminates: the dispatcher, the semaphore and
\* the ordering buffer never deadlock, all N outcomes are eventually
\* emitted, and the summary is eventually produced.
C31_RunTerminates ==
    <>(mpc = "done" /\ AllTerminal /\ SummaryProduced)

(***************************************************************************)
(* Properties of the two phases of AnalyzeRootCause, checked under Spec.   *)
(***************************************************************************)
\* the commits whose diff extraction has finished
Extracted == {j \in Commits : diffContexts[j].set}

\* a reasoning call has started
ReasoningStarted == \E i \in Commits : llmCalls[i] > 0

\* C32: in AnalyzeRootCause diff extraction visits the commits in increasing
\* index order: each extraction that finishes is that of the smallest commit
\* index not yet extracted; and extraction has finished for all commits
\* before the first reasoning call starts: once a reasoning call has started
\* every commit is extracted and no extraction runs.
C32_ExtractionBeforeReasoning ==
    [][ entry = "mcp" =>
          /\ diffContexts' # diffContexts =>
                \E j \in Commits :
                   /\ Extracted = 0 .. j - 1
                   /\ Extracted' = 0 .. j
                   /\ \A k \in Slots \ {j} : diffContexts'[k] = diffContexts[k]
          /\ ReasoningStarted' =>
                (Extracted' = Commits /\ diffContexts' = diffContexts
                   /\ mpc' \notin {"phase1", "extract"}) ]_vars

\* both commits are extracted and the reasoning call of commit 1 is running
C32_Witness ==
    /\ entry = "mcp" /\ numCommits = 2
    /\ Extracted = {0, 1}
    /\ wpc[1] = "llm" /\ llmCalls[1] = 1

(***************************************************************************)
(* Properties of a worker that starts in a cancelled run, checked under    *)
(* Spec.                                                                   *)
(***************************************************************************)
\* the worker of commit i is at its cancellation check and ctx is done
FindsRunCancelled(i) == wpc[i] = "start" /\ cancelled

\* the CLI worker of commit i has taken the cancelled branch and is about
\* to call submit
SubmitsCancellation(i) ==
    /\ entry = "cli" /\ wpc[i] = "submit"
    /\ llmCalls[i] = 0
    /\ wrs[i].ret = [kind |-> "ctx", err |-> Canceled]

\* the worker of commit i has handed over its outcome
HasSubmitted(i) == wpc[i] \in {"drain", "print", "done"}

\* C33: a worker that finds the run already cancelled when it starts makes
\* no reasoning call and hands over exactly one outcome, for its own commit
\* index, with no result and the cancellation error: the CLI worker submits
\* it to the printer, the MCP worker stores it in its slot; a worker that
\* has handed over its outcome hands over nothing more and makes no call.
C33_CancelledWorkerSubmitsError ==
    [][ \A i \in Slots :
          /\ (FindsRunCancelled(i) /\ wpc'[i] # wpc[i]) =>
                /\ llmCalls'[i] = 0
                /\ entry = "cli" =>
                      /\ wpc'[i] = "submit"
                      /\ wres'[i] = NilResult
                      /\ wrs'[i].ret = [kind |-> "ctx", err |-> Canceled]
                      /\ p' = p
                /\ entry = "mcp" =>
                      /\ wpc'[i] = "done"
                      /\ ~results[i].set
                      /\ results' = [results EXCEPT ![i] =
                            SlotResult(NilResult, [kind |-> "ctx", err |-> Canceled])]
          /\ (SubmitsCancellation(i) /\ wpc'[i] # wpc[i]) =>
                /\ llmCalls'[i] = 0
                /\ Buffered(p, i) = {}
                /\ p'.results = p.results \cup
                      {commitResult(i, NilResult, [kind |-> "ctx", err |-> Canceled])}
          /\ HasSubmitted(i) =>
                /\ HasSubmitted(i)'
                /\ llmCalls'[i] = llmCalls[i]
                /\ entry = "mcp" => results'[i] = results[i]
                /\ entry = "cli" => Cardinality(Buffered(p', i)) <= 1 ]_vars

\* the CLI worker of commit 0 found the run cancelled and has submitted its
\* outcome: the buffer holds the cancellation error for index 0 and no
\* reasoning call was made for it
C33_Witness ==
    /\ entry = "cli" /\ cancelled
    /\ wpc[0] = "drain" /\ llmCalls[0] = 0
    /\ Buffered(p, 0) = {commitResult(0, NilResult, [kind |-> "ctx", err |-> Canceled])}

(***************************************************************************)
(* Properties of WithRetry under cancellation and for any RetryConfig,     *)
(* checked under SpecRetry.                                                *)
(***************************************************************************)
\* C34: once the context passed to WithRetry has been cancelled, WithRetry
\* starts at most one further invocation of the operation and returns
\* without completing another backoff sleep: the select that follows an
\* invocation made with the context done leads to the return, with no
\* further invocation and no sleep completed.
C34_CancelStopsRetries ==
    [][ (rctx # "live" /\ rs.pc = "sleep" /\ rs' # rs) =>
            /\ rs'.pc = "returned"
            /\ rs'.calls = rs.calls
            /\ rs'.sleeps = rs.sleeps ]_vars

\* C35: for every RetryConfig and every behaviour of the operation and the
\* context, WithRetry returns having invoked the operation at least once and
\* at most MaxRetries+1 times, and it returns nil exactly when its last
\* invocation of the operation returned nil.
C35_InvocationCount ==
    rs.pc = "returned" =>
        /\ 1 <= rs.calls
        /\ rs.calls <= rcfg.MaxRetries + 1
        /\ rs.ret.kind = "nil" <=> rs.lastErr.kind = "nil"

(***************************************************************************)
(* Properties of the results slots of AnalyzeRootCause, checked under      *)
(* Spec.                                                                   *)
(***************************************************************************)
\* the slots of results that changed in a step
SlotsWritten == {k \in Slots : results'[k] # results[k]}

\* wg.Wait() has returned
WaitReturned == mpc = "done" \/ (mpc = "mwait" /\ wg = 0)

\* C36: in AnalyzeRootCause a step writes at most one results slot; a worker
\* goroutine writes only the slot of its own commit index; every slot is
\* written exactly once, by the main goroutine in the loop of Phase 2 for a
\* skipped or extraction-error commit and by the commit's worker otherwise;
\* and after the wait every slot is non-nil, so that building the output
\* never reads a missing result.
C36_ResultSlots ==
    [][ entry = "mcp" =>
          /\ \A i \in SlotsWritten :
                /\ SlotsWritten = {i}
                /\ i \in Commits
                /\ ~results[i].set /\ results'[i].set
                /\ IF NeedsWorker(diffContexts[i])
                   THEN wpc[i] \in {"start", "store"} /\ wpc'[i] = "done"
                        /\ mpc' = mpc /\ next' = next
                   ELSE mpc = "phase2" /\ next = i /\ wpc' = wpc
          /\ WaitReturned' => \A i \in Commits : results'[i].set ]_vars

\* commit 0 is skipped and its slot was written by the loop of Phase 2,
\* commit 1 was analysed and its slot written by its worker; the wait has
\* returned and both slots are there
C36_Witness ==
    /\ entry = "mcp" /\ numCommits = 2 /\ mpc = "done"
    /\ ~diffContexts[0].isNil /\ diffContexts[0].Skipped
    /\ results[0] = SlotResult(SkippedResult, [kind |-> "nil", err |-> NilErr])
    /\ NeedsWorker(diffContexts[1]) /\ llmCalls[1] = 1
    /\ results[1].set /\ ~results[1].result.isNil

(***************************************************************************)
(* Properties of LoadConfig and SaveConfig, checked under SpecConfig.      *)
(***************************************************************************)
\* C38: LoadConfig and SaveConfig never panic on a short or malformed path
\* (for example "~", "/" or "a"): for every path they return, LoadConfig a
\* configuration or an error, SaveConfig nil or an error.
C38_ConfigNeverPanics ==
    (fnPc = "done" /\ fnCall.fn \in {"LoadConfig", "SaveConfig"}) =>
        /\ fnRet.kind # "panic"
        /\ fnCall.fn = "LoadConfig" => fnRet.kind \in {"config", "error"}
        /\ fnCall.fn = "SaveConfig" => fnRet.kind \in {"nil", "error"}

====
